---------------------------- MODULE Spec2Model ----------------------------
(***************************************************************************)
(* A model of the networking programs of the repository:                   *)
(*   projects/26_simple_tcp_server        ("echo"): thread-per-connection  *)
(*                                         TCP echo server                 *)
(*   projects/32_json_tcp_client_and_server ("json"): TCP server that      *)
(*                                         reads newline-delimited JSON    *)
(*                                         points and replies their norm   *)
(*   projects/28_sleeping_tcp_server      ("sleep"): the echo server with  *)
(*                                         a random sleep before each      *)
(*                                         reply                           *)
(*   projects/30_simple_udp_server        ("udp"): thread-per-datagram     *)
(*                                         UDP echo server                 *)
(*   projects/27_simple_tcp_client        ("client27"): line client        *)
(*   projects/29_timeout_tcp_client       ("client29"): line client with   *)
(*                                         a read timeout                  *)
(*   the client half of 32                ("client32"): sends points as    *)
(*                                         JSON lines, prints the replies  *)
(* and, of the exercises without a network, the types with state:         *)
(*   projects/21_iterators_and_closures   ("cacher", "counter"): Cacher    *)
(*                                         and Counter                     *)
(*   projects/23_smart_pointers           ("tracker"): LimitTracker        *)
(* One behaviour is one run of one of the programs (variable program):     *)
(* Spec has the runs of the servers once they are bound, ClientSpec the    *)
(* runs of the clients once they are connected, StartSpec the start of     *)
(* each process up to there, CodecSpec ("codec") the way of one point of   *)
(* 32 from the client's struct to the server's reply, and LibSpec the      *)
(* calls made on one value of an exercise's type.                          *)
(* A byte is a one-character string; NUL stands for the byte 0.            *)
(***************************************************************************)
EXTENDS Integers, Sequences, FiniteSets, TLC

VARIABLES
    program,   \* which program this run executes
    build,     \* "debug" (overflow checks on) or "release" (wrapping)
    cst,       \* cst[c]: connection c as the kernel sees it
    payload,   \* payload[c]: the bytes client c is going to send
    nsent,     \* nsent[c]: how many of them it has sent
    wire,      \* wire[c]: bytes sent by client c, not yet read by the server
    eof,       \* eof[c]: client c has shut down its sending side
    rst,       \* rst[c]: connection c was reset (reads and writes now fail)
    out,       \* out[c]: bytes the server has written to connection c
    wk,        \* wk[c]: the worker thread of connection c
    acc,       \* the acceptor loop (main thread of the stream servers)
    stderr,    \* what was printed to standard error, as a set of lines
    rcv,       \* the receive loop of the datagram server (main thread)
    dgram,     \* dgram[d]: datagram d as sent by its peer
    uwk,       \* uwk[d]: the worker thread spawned for datagram d
    replies,   \* datagrams the server has sent
    cl,        \* the client: its position in the loop and its locals
    stdin,     \* the lines of user input the client has not read yet
    tx,        \* bytes the client has written, not yet read by its server
    rx,        \* bytes the server has written, not yet read by the client
    srv,       \* the server the client is connected to
    stdout,    \* what the client has printed, one entry per print!
    args,      \* env::args() of the process
    proc,      \* the process from the start of main on
    codec,     \* one point on its way from the client's struct to the reply
    cacher,    \* a Cacher and the calls made on it
    counter,   \* a Counter and the calls made on it
    tracker    \* a LimitTracker, its messenger and the calls made on it

streamVars == <<cst, payload, nsent, wire, eof, rst, out, wk, acc>>
udpVars == <<rcv, dgram, uwk, replies>>
clientVars == <<cl, stdin, tx, rx, srv, stdout>>
startVars == <<args, proc>>
libVars == <<codec, cacher, counter, tracker>>
vars == <<program, build, cst, payload, nsent, wire, eof, rst, out, wk, acc,
          stderr, rcv, dgram, uwk, replies, cl, stdin, tx, rx, srv, stdout,
          args, proc, codec, cacher, counter, tracker>>

---------------------------------------------------------------------------
(* Bounds of the model.                                                    *)

\* the size of the first piece of a payload that a client sends in pieces
SplitLen == 2
\* failed accept() calls one run may see
MaxAcceptErrs == 1
\* datagrams one run of the datagram server may be sent
MaxDatagrams == 2
\* failed recv_from() calls one run may see
MaxRecvErrs == 1
\* arguments a process may be started with, after its own name
MaxArgs == 3

Conns == {1, 2}
\* the connections that may be reset
Resettable == {1}
Peers == {"p", "q"}
Datagrams == 1..MaxDatagrams

---------------------------------------------------------------------------
(* Bytes and sequences.                                                    *)

NUL == "NUL"
NL == "\n"

Min(a, b) == IF a <= b THEN a ELSE b

Take(s, n) == SubSeq(s, 1, Min(n, Len(s)))
Drop(s, n) == SubSeq(s, Min(n, Len(s)) + 1, Len(s))

Range(f) == {f[i] : i \in DOMAIN f}

\* [0u8; n]
Zeros(n) == [i \in 1..n |-> NUL]

\* position of the first b in s, 0 when there is none (memchr)
RECURSIVE FindFrom(_, _, _)
FindFrom(s, b, i) ==
    IF i > Len(s) THEN 0
    ELSE IF s[i] = b THEN i
    ELSE FindFrom(s, b, i + 1)

Find(s, b) == FindFrom(s, b, 1)

---------------------------------------------------------------------------
(* Unsigned integers of any size, as little-endian sequences of base-256   *)
(* limbs with no leading zero limb (zero is << >>).  A u32 is such a       *)
(* number of at most four limbs.                                           *)

RECURSIVE BigTrim(_)
BigTrim(a) ==
    IF a = <<>> THEN <<>>
    ELSE IF a[Len(a)] = 0 THEN BigTrim(SubSeq(a, 1, Len(a) - 1))
    ELSE a

RECURSIVE BigOfInt(_)
BigOfInt(n) == IF n = 0 THEN <<>> ELSE <<n % 256>> \o BigOfInt(n \div 256)

RECURSIVE BigAddC(_, _, _)
BigAddC(a, b, carry) ==
    IF a = <<>> /\ b = <<>>
    THEN (IF carry = 0 THEN <<>> ELSE <<carry>>)
    ELSE LET x == IF a = <<>> THEN 0 ELSE Head(a)
             y == IF b = <<>> THEN 0 ELSE Head(b)
             s == x + y + carry
         IN  <<s % 256>> \o BigAddC(IF a = <<>> THEN <<>> ELSE Tail(a),
                                    IF b = <<>> THEN <<>> ELSE Tail(b),
                                    s \div 256)

BigAdd(a, b) == BigTrim(BigAddC(a, b, 0))

\* a * m + carry for a small m
RECURSIVE BigMulSmallC(_, _, _)
BigMulSmallC(a, m, carry) ==
    IF a = <<>> THEN BigOfInt(carry)
    ELSE LET s == Head(a) * m + carry
         IN  <<s % 256>> \o BigMulSmallC(Tail(a), m, s \div 256)

BigMulSmall(a, m) == BigTrim(BigMulSmallC(a, m, 0))

RECURSIVE BigMul(_, _)
BigMul(a, b) ==
    IF b = <<>> THEN <<>>
    ELSE BigAdd(BigMulSmall(a, Head(b)),
                IF BigMul(a, Tail(b)) = <<>> THEN <<>>
                ELSE <<0>> \o BigMul(a, Tail(b)))

\* a <= b
RECURSIVE BigLeqFrom(_, _, _)
BigLeqFrom(a, b, i) ==
    IF i = 0 THEN TRUE
    ELSE IF a[i] /= b[i] THEN a[i] < b[i]
    ELSE BigLeqFrom(a, b, i - 1)

BigLeq(a, b) ==
    IF Len(a) /= Len(b) THEN Len(a) < Len(b) ELSE BigLeqFrom(a, b, Len(a))

\* <<quotient, remainder>> of a by the small m
RECURSIVE BigDivSmallFrom(_, _, _, _)
BigDivSmallFrom(a, m, i, rem) ==
    IF i = 0 THEN <<<<>>, rem>>
    ELSE LET cur == rem * 256 + a[i]
             rest == BigDivSmallFrom(a, m, i - 1, cur % m)
         IN  <<rest[1] \o <<cur \div m>>, rest[2]>>

BigDivSmall(a, m) ==
    LET r == BigDivSmallFrom(a, m, Len(a), 0) IN <<BigTrim(r[1]), r[2]>>

U32_BITS == 32
U32Limbs == U32_BITS \div 8

\* (mutant) the fields declared i32
FitsU32_Signed(a) == Len(a) < U32Limbs \/ (Len(a) = U32Limbs /\ a[U32Limbs] < 128)

FitsU32(a) == Len(a) <= U32Limbs
\* the value modulo 2^32
WrapU32(a) == BigTrim(Take(a, U32Limbs))


---------------------------------------------------------------------------
(* Decimal text.                                                           *)

Digits == <<"0", "1", "2", "3", "4", "5", "6", "7", "8", "9">>

IsDigit(b) == \E i \in 1..10 : Digits[i] = b
DigitVal(b) == (CHOOSE i \in 1..10 : Digits[i] = b) - 1

\* the decimal digits of a, most significant first (u32's Display and
\* serde_json's integer output)
RECURSIVE BigToDecimal(_)
BigToDecimal(a) ==
    IF a = <<>> THEN <<"0">>
    ELSE LET qr == BigDivSmall(a, 10)
         IN  IF qr[1] = <<>> THEN <<Digits[qr[2] + 1]>>
             ELSE BigToDecimal(qr[1]) \o <<Digits[qr[2] + 1]>>

\* the number a run of decimal digits denotes
RECURSIVE BigOfDecimalFrom(_, _, _)
BigOfDecimalFrom(s, i, sofar) ==
    IF i > Len(s) THEN sofar
    ELSE BigOfDecimalFrom(s, i + 1,
             BigAdd(BigMulSmall(sofar, 10), BigOfInt(DigitVal(s[i]))))

BigOfDecimal(s) == BigOfDecimalFrom(s, 1, <<>>)

---------------------------------------------------------------------------
(* serde_json::from_slice::<Point3D>, on the JSON texts the model sends:   *)
(* one object whose members are "name": unsigned-integer pairs, JSON       *)
(* whitespace between tokens and after the value.  Members x, y and z must *)
(* each occur once and fit a u32, other members are skipped.  Everything   *)
(* else is a syntax or data error.                                         *)

IsWs(b) == b \in {" ", "\n", "\t", "\r"}

RECURSIVE SkipWs(_, _)
SkipWs(s, i) == IF i <= Len(s) /\ IsWs(s[i]) THEN SkipWs(s, i + 1) ELSE i

RECURSIVE DigitsEnd(_, _)
DigitsEnd(s, i) == IF i <= Len(s) /\ IsDigit(s[i]) THEN DigitsEnd(s, i + 1) ELSE i

At(s, i, b) == i <= Len(s) /\ s[i] = b

JsonErr == [ok |-> FALSE]
FieldNames == {"x", "y", "z"}

\* a JSON number that is an unsigned integer: 0, or digits not starting with 0,
\* not followed by a fraction or an exponent
ParseUInt(s, i) ==
    LET e == DigitsEnd(s, i)
    IN  IF e = i THEN JsonErr
        ELSE IF s[i] = "0" /\ e > i + 1 THEN JsonErr
        ELSE IF e <= Len(s) /\ s[e] \in {".", "e", "E"} THEN JsonErr
        ELSE [ok |-> TRUE, val |-> BigOfDecimal(SubSeq(s, i, e - 1)), next |-> e]

\* a member name of one character: "c"
ParseKey(s, i) ==
    IF At(s, i, "\"") /\ i + 2 <= Len(s) /\ s[i + 1] \notin {"\"", "\\"}
       /\ s[i + 2] = "\""
    THEN [ok |-> TRUE, key |-> s[i + 1], next |-> i + 3]
    ELSE JsonErr

\* the members from position i on, with the fields seen so far; ends at }
RECURSIVE ParseMembers(_, _, _)
ParseMembers(s, i, seen) ==
    LET k == ParseKey(s, SkipWs(s, i))
    IN  IF ~k.ok THEN JsonErr
        ELSE LET c == SkipWs(s, k.next)
             IN  IF ~At(s, c, ":") THEN JsonErr
                 ELSE LET v == ParseUInt(s, SkipWs(s, c + 1))
                      IN  IF ~v.ok THEN JsonErr
                          ELSE IF k.key \in DOMAIN seen THEN JsonErr \* duplicate field
                          ELSE IF k.key \in FieldNames /\ ~FitsU32(v.val) THEN JsonErr
                          ELSE LET seen2 == IF k.key \in FieldNames
                                            THEN (k.key :> v.val) @@ seen
                                            ELSE seen
                                   d == SkipWs(s, v.next)
                               IN  IF At(s, d, ",") THEN ParseMembers(s, d + 1, seen2)
                                   ELSE IF At(s, d, "}")
                                   THEN [ok |-> TRUE, seen |-> seen2, next |-> d + 1]
                                   ELSE JsonErr

from_slice(data) ==
    LET i == SkipWs(data, 1)
    IN  IF ~At(data, i, "{") THEN JsonErr
        ELSE LET j == SkipWs(data, i + 1)
                 m == IF At(data, j, "}")
                      THEN [ok |-> TRUE, seen |-> <<>>, next |-> j + 1]
                      ELSE ParseMembers(data, j, <<>>)
             IN  IF ~m.ok THEN JsonErr
                 ELSE IF SkipWs(data, m.next) <= Len(data) THEN JsonErr \* trailing characters
                 ELSE IF DOMAIN m.seen /= FieldNames THEN JsonErr       \* missing field
                 ELSE [ok |-> TRUE, x |-> m.seen["x"], y |-> m.seen["y"], z |-> m.seen["z"]]

\* serde_json::to_string(&Point3D {x, y, z})
to_string(x, y, z) ==
    <<"{", "\"", "x", "\"", ":">> \o BigToDecimal(x) \o
    <<",", "\"", "y", "\"", ":">> \o BigToDecimal(y) \o
    <<",", "\"", "z", "\"", ":">> \o BigToDecimal(z) \o <<"}">>

---------------------------------------------------------------------------
(* u32 arithmetic as the build performs it: each operation yields the      *)
(* wrapped value and whether it overflowed.                                *)

\* u32::pow(x, 2)
U32Pow2(x) ==
    [v |-> WrapU32(BigMul(x, x)), ovf |-> ~FitsU32(BigMul(x, x))]

\* u32 + u32
U32Add(a, b) ==
    [v |-> WrapU32(BigAdd(a, b)), ovf |-> ~FitsU32(BigAdd(a, b))]

\* input.x.pow(2) + input.y.pow(2) + input.z.pow(2), left to right
SumOfSquares(p) ==
    LET xx == U32Pow2(p.x)
        yy == U32Pow2(p.y)
        s1 == U32Add(xx.v, yy.v)
        zz == U32Pow2(p.z)
        s2 == U32Add(s1.v, zz.v)
    IN  [v |-> s2.v, ovf |-> xx.ovf \/ yy.ovf \/ s1.ovf \/ zz.ovf \/ s2.ovf]

\* the mathematical x*x + y*y + z*z
ExactSumOfSquares(p) ==
    BigAdd(BigAdd(BigMul(p.x, p.x), BigMul(p.y, p.y)), BigMul(p.z, p.z))

\* the largest r with r*r <= v, for a u32 v (r < 2^16)
RECURSIVE IsqrtFrom(_, _, _)
IsqrtFrom(v, r, bit) ==
    IF bit = 0 THEN r
    ELSE IF BigLeq(BigMul(BigOfInt(r + bit), BigOfInt(r + bit)), v)
         THEN IsqrtFrom(v, r + bit, bit \div 2)
         ELSE IsqrtFrom(v, r, bit \div 2)

Isqrt(v) == IsqrtFrom(v, 0, 32768)

IsPerfectSquare(v) == BigMul(BigOfInt(Isqrt(v)), BigOfInt(Isqrt(v))) = v

\* the digits after the point that f64's Display prints for sqrt(v), for the
\* values v the model's requests produce that are no perfect squares; the
\* last one is the sum of squares of a request whose sum no u32 holds
SqrtFraction(v) ==
    CASE v = <<2>> ->
        <<"4", "1", "4", "2", "1", "3", "5", "6", "2", "3", "7", "3", "0", "9", "5", "1">>
      [] v = <<3>> ->
        <<"7", "3", "2", "0", "5", "0", "8", "0", "7", "5", "6", "8", "8", "7", "7", "2">>
      [] v = <<5>> ->
        <<"2", "3", "6", "0", "6", "7", "9", "7", "7", "4", "9", "9", "7", "9">>
      [] v = <<6>> ->
        <<"4", "4", "9", "4", "8", "9", "7", "4", "2", "7", "8", "3", "1", "7", "8">>
      [] v = <<8>> ->
        <<"8", "2", "8", "4", "2", "7", "1", "2", "4", "7", "4", "6", "1", "9", "0", "3">>
      [] v = <<10>> ->
        <<"1", "6", "2", "2", "7", "7", "6", "6", "0", "1", "6", "8", "3", "7", "9", "5">>
      [] v = <<11>> ->
        <<"3", "1", "6", "6", "2", "4", "7", "9", "0", "3", "5", "5", "4">>
      [] v = <<12>> ->
        <<"4", "6", "4", "1", "0", "1", "6", "1", "5", "1", "3", "7", "7", "5", "4", "4">>
      [] v = <<13>> ->
        <<"6", "0", "5", "5", "5", "1", "2", "7", "5", "4", "6", "3", "9", "8", "9">>
      [] v = <<14>> ->
        <<"7", "4", "1", "6", "5", "7", "3", "8", "6", "7", "7", "3", "9", "4", "1", "3">>
      [] v = <<17>> ->
        <<"1", "2", "3", "1", "0", "5", "6", "2", "5", "6", "1", "7", "6", "6", "1">>
      [] v = <<18>> ->
        <<"2", "4", "2", "6", "4", "0", "6", "8", "7", "1", "1", "9", "2", "8", "5">>
      [] v = <<19>> ->
        <<"3", "5", "8", "8", "9", "8", "9", "4", "3", "5", "4", "0", "6", "7", "4">>
      [] v = <<20>> ->
        <<"4", "7", "2", "1", "3", "5", "9", "5", "4", "9", "9", "9", "5", "8">>
      [] v = <<21>> ->
        <<"5", "8", "2", "5", "7", "5", "6", "9", "4", "9", "5", "5", "8", "4">>
      [] v = <<22>> ->
        <<"6", "9", "0", "4", "1", "5", "7", "5", "9", "8", "2", "3", "4", "3">>
      [] v = <<24>> ->
        <<"8", "9", "8", "9", "7", "9", "4", "8", "5", "5", "6", "6", "3", "5", "6">>
      [] v = <<26>> ->
        <<"0", "9", "9", "0", "1", "9", "5", "1", "3", "5", "9", "2", "7", "8", "4", "5">>
      [] v = <<27>> ->
        <<"1", "9", "6", "1", "5", "2", "4", "2", "2", "7", "0", "6", "6", "3", "2">>
      [] v = <<29>> ->
        <<"3", "8", "5", "1", "6", "4", "8", "0", "7", "1", "3", "4", "5", "0", "4">>
      [] v = <<32>> ->
        <<"6", "5", "6", "8", "5", "4", "2", "4", "9", "4", "9", "2", "3", "8", "1">>
      [] v = <<33>> ->
        <<"7", "4", "4", "5", "6", "2", "6", "4", "6", "5", "3", "8", "0", "2", "9">>
      [] v = <<34>> ->
        <<"8", "3", "0", "9", "5", "1", "8", "9", "4", "8", "4", "5", "3", "0", "1">>
      [] v = <<41>> ->
        <<"4", "0", "3", "1", "2", "4", "2", "3", "7", "4", "3", "2", "8", "4", "8", "5">>
      [] v = <<48>> ->
        <<"9", "2", "8", "2", "0", "3", "2", "3", "0", "2", "7", "5", "5", "0", "9">>
      [] v = <<4, 0, 0, 0, 1>> ->    \* 2^32 + 4
        <<"0", "0", "0", "0", "3", "0", "5", "1", "7", "5", "8">>

\* format!("{}", f64::from(value).sqrt()): a u32 converts exactly, the root
\* of a perfect square is exact, and Display prints an integral f64 without
\* a fraction
FormatSqrt(v) ==
    IF IsPerfectSquare(v) THEN BigToDecimal(BigOfInt(Isqrt(v)))
    ELSE BigToDecimal(BigOfInt(Isqrt(v))) \o <<".">> \o SqrtFraction(v)

---------------------------------------------------------------------------
(* What the peers send.                                                    *)

\* the programs whose handle_client echoes what it reads
EchoPrograms == {"echo", "sleep"}

Line(x, y, z) == to_string(BigOfInt(x), BigOfInt(y), BigOfInt(z)) \o <<NL>>

\* the payloads of the echo clients: distinct, and of distinct bytes
EchoPayload(c) == IF c = 1 THEN <<"a", "b", "c">> ELSE <<"x", "y">>

NotJson == <<"{", "n", "o", "t", " ", "j", "s", "o", "n", "}", NL>>

JsonPayloads ==
    { Line(0, 0, 0) \o Line(1, 1, 0),     \* two requests, sent back to back
      to_string(BigOfInt(3), BigOfInt(4), <<>>),   \* no newline before the close
      NotJson,                            \* no JSON
      Line(65536, 0, 0),                  \* x*x is 2^32
      Line(48130, 44480, 0) }             \* x*x + y*y is 2^32 + 4

\* peer 1 sends any of the JSON payloads, peer 2 a well-formed request
Payloads(c) ==
    IF program \in EchoPrograms THEN {EchoPayload(c)}
    ELSE IF c = 1 THEN JsonPayloads
    ELSE {Line(3, 4, 0)}

\* the sizes of the next piece a client may send when rest is what it has
\* left: all of it, its first line, or, as the very first piece, SplitLen bytes
ChunkSizes(rest, first) ==
    {k \in 1..Len(rest) : \/ k = Len(rest)
                          \/ k = Find(rest, NL)
                          \/ first /\ k = SplitLen}

---------------------------------------------------------------------------
(* The stream servers: 26_simple_tcp_server and the server half of         *)
(* 32_json_tcp_client_and_server.                                          *)

StreamPrograms == {"echo", "sleep", "json"}

\* let mut buf = [0; 512]
BUF_SIZE == 512

NoWorker ==
    [pc |-> "none", buf |-> <<>>, rbuf |-> <<>>, bytes_read |-> 0, written |-> 0,
     input |-> <<>>, value |-> <<>>, error |-> "", nth |-> 0, secs |-> 0]

\* the first statement of the loop of handle_client
LoopTop == IF program \in EchoPrograms THEN "read" ELSE "read_until"

\* the thread thread::spawn starts on handle_client(stream)
Spawned(nth) == [NoWorker EXCEPT !.pc = "peer_addr", !.nth = nth]

\* (mutant) handle_client called on the acceptor's own thread
AfterSpawn_Inline(c) == "handling"

\* where the acceptor is after thread::spawn: back in listener.incoming()
AfterSpawn(c) == "incoming"

\* (mutant) the result of handle_client dropped unprinted
Reported_Swallowed(c, what) == stderr

\* unwrap_or_else(|error| eprintln!("{:?}", error)) in the spawned closure,
\* and the panic hook's message of a panicking thread
Reported(c, what) == stderr \cup {[by |-> "worker", id |-> c, msg |-> what]}

\* (mutant) the error printed and the loop carried on with
ReturnErr_Continue(c, kind) ==
    /\ wk' = [wk EXCEPT ![c] = [@ EXCEPT !.pc = LoopTop, !.error = kind]]
    /\ cst' = cst
    /\ stderr' = Reported(c, kind)

\* handle_client returns Err(kind): the stream is dropped, the closure prints
ReturnErr(c, kind) ==
    /\ wk' = [wk EXCEPT ![c] = [@ EXCEPT !.pc = "err", !.error = kind]]
    /\ cst' = [cst EXCEPT ![c] = "closed"]
    /\ stderr' = Reported(c, kind)

\* (mutant) the end of the stream returned as an error
ReturnOk_Reported(c) == ReturnErr(c, "UnexpectedEof")

\* handle_client returns Ok(()): the stream is dropped, nothing is printed
ReturnOk(c) ==
    /\ wk' = [wk EXCEPT ![c] = [@ EXCEPT !.pc = "ok", !.bytes_read = 0]]
    /\ cst' = [cst EXCEPT ![c] = "closed"]
    /\ stderr' = stderr

\* the worker thread panics: it unwinds, dropping the stream, and the panic
\* hook prints; the other threads run on
Panicked(c, what) ==
    /\ wk' = [wk EXCEPT ![c] = [@ EXCEPT !.pc = "panicked", !.error = what]]
    /\ cst' = [cst EXCEPT ![c] = "closed"]
    /\ stderr' = Reported(c, what)

(* The peers. *)

\* a peer connects: the kernel completes the handshake and queues the
\* connection for accept()
Connect(c) ==
    /\ program \in StreamPrograms
    /\ cst[c] = "idle"
    /\ \E p \in Payloads(c) : payload' = [payload EXCEPT ![c] = p]
    /\ cst' = [cst EXCEPT ![c] = "backlog"]
    /\ UNCHANGED <<program, build, nsent, wire, eof, rst, out, wk, acc, stderr>>
    /\ UNCHANGED <<udpVars, clientVars, startVars, libVars>>

\* a peer sends the next k bytes of its payload
ClientSend(c) ==
    /\ program \in StreamPrograms
    /\ cst[c] \in {"backlog", "open"}
    /\ ~eof[c] /\ ~rst[c]
    /\ \E k \in ChunkSizes(Drop(payload[c], nsent[c]), nsent[c] = 0) :
          /\ wire' = [wire EXCEPT ![c] = @ \o SubSeq(payload[c], nsent[c] + 1, nsent[c] + k)]
          /\ nsent' = [nsent EXCEPT ![c] = @ + k]
    /\ UNCHANGED <<program, build, cst, payload, eof, rst, out, wk, acc, stderr>>
    /\ UNCHANGED <<udpVars, clientVars, startVars, libVars>>

\* a peer that has sent everything shuts down its sending side
ClientShutdown(c) ==
    /\ program \in StreamPrograms
    /\ cst[c] \in {"backlog", "open"}
    /\ ~eof[c] /\ ~rst[c]
    /\ nsent[c] = Len(payload[c])
    /\ eof' = [eof EXCEPT ![c] = TRUE]
    /\ UNCHANGED <<program, build, cst, payload, nsent, wire, rst, out, wk, acc, stderr>>
    /\ UNCHANGED <<udpVars, clientVars, startVars, libVars>>

\* the connection is reset by the peer or the network
ClientReset(c) ==
    /\ program \in StreamPrograms
    /\ c \in Resettable
    /\ cst[c] \in {"backlog", "open"}
    /\ ~rst[c]
    /\ rst' = [rst EXCEPT ![c] = TRUE]
    /\ UNCHANGED <<program, build, cst, payload, nsent, wire, eof, out, wk, acc, stderr>>
    /\ UNCHANGED <<udpVars, clientVars, startVars, libVars>>

(* The acceptor: for stream in listener.incoming() { match stream ... } *)

\* (mutant) the connection left with the listener as well
Accepted_Requeued(c) == "backlog"

\* the connection incoming() yields has left the backlog: the stream is
\* moved into the closure of the one thread spawned for it
Accepted(c) == "open"

\* Ok(stream) => thread::spawn(move || handle_client(stream)...)
AcceptOk(c) ==
    /\ program \in StreamPrograms
    /\ acc.pc = "incoming"
    /\ cst[c] = "backlog"
    /\ cst' = [cst EXCEPT ![c] = Accepted(c)]
    /\ wk' = [wk EXCEPT ![c] = Spawned(acc.n + 1)]
    /\ acc' = [acc EXCEPT !.pc = AfterSpawn(c), !.n = @ + 1]
    /\ UNCHANGED <<program, build, payload, nsent, wire, eof, rst, out, stderr>>
    /\ UNCHANGED <<udpVars, clientVars, startVars, libVars>>

\* Err(e) => eprintln!("failed: {}", e)
AcceptErr ==
    /\ program \in StreamPrograms
    /\ acc.pc = "incoming"
    /\ acc.errs < MaxAcceptErrs
    /\ acc' = [acc EXCEPT !.errs = @ + 1]
    /\ stderr' = stderr \cup {[by |-> "main", id |-> acc.errs + 1, msg |-> "failed"]}
    /\ UNCHANGED <<program, build, cst, payload, nsent, wire, eof, rst, out, wk>>
    /\ UNCHANGED <<udpVars, clientVars, startVars, libVars>>

(* handle_client, both servers. *)

\* println!("Incoming connection from: {}", stream.peer_addr()?)
PeerAddr(c) ==
    /\ program \in StreamPrograms
    /\ wk[c].pc = "peer_addr"
    /\ IF rst[c]
       THEN ReturnErr(c, "NotConnected")
       ELSE /\ wk' = [wk EXCEPT ![c] = [@ EXCEPT !.pc = LoopTop]]
            /\ UNCHANGED <<cst, stderr>>
    /\ UNCHANGED <<program, build, payload, nsent, wire, eof, rst, out, acc>>
    /\ UNCHANGED <<udpVars, clientVars, startVars, libVars>>

(* handle_client of 26_simple_tcp_server and of 28_sleeping_tcp_server. *)

\* let secs_array: Vec<u32> = vec![0, 1, 2, 3, 4, 5]
secs_array == <<0, 1, 2, 3, 4, 5>>

\* what follows a read of some bytes: the reply, in 28 after the sleep
AfterRead == IF program = "sleep" THEN "sleep" ELSE "write"

\* *secs_array.choose(&mut rng).unwrap(): any element; no sleep in 26
ChosenSecs == IF program = "sleep" THEN Range(secs_array) ELSE {0}

\* let bytes_read = stream.read(&mut buf)?; if bytes_read == 0 { return Ok(()) }
\* and, in 28, the choice of the seconds to sleep
EchoRead(c) ==
    /\ program \in EchoPrograms
    /\ wk[c].pc = "read"
    /\ \/ /\ rst[c]
          /\ ReturnErr(c, "ConnectionReset")
          /\ wire' = wire
       \/ /\ ~rst[c] /\ wire[c] /= <<>>
          /\ \E secs \in ChosenSecs :
                wk' = [wk EXCEPT ![c] = [@ EXCEPT !.pc = AfterRead,
                                               !.buf = Take(wire[c], BUF_SIZE),
                                               !.bytes_read = Len(Take(wire[c], BUF_SIZE)),
                                               !.secs = secs]]
          /\ wire' = [wire EXCEPT ![c] = Drop(@, BUF_SIZE)]
          /\ UNCHANGED <<cst, stderr>>
       \/ /\ ~rst[c] /\ wire[c] = <<>> /\ eof[c]
          /\ ReturnOk(c)
          /\ wire' = wire
    /\ UNCHANGED <<program, build, payload, nsent, eof, rst, out, acc>>
    /\ UNCHANGED <<udpVars, clientVars, startVars, libVars>>

\* std::thread::sleep(sleep): the calling thread is back after the sleep
Sleep(c) ==
    /\ program = "sleep"
    /\ wk[c].pc = "sleep"
    /\ wk' = [wk EXCEPT ![c] = [@ EXCEPT !.pc = "write", !.secs = 0]]
    /\ UNCHANGED <<program, build, cst, payload, nsent, wire, eof, rst, out, acc, stderr>>
    /\ UNCHANGED <<udpVars, clientVars, startVars, libVars>>

\* the counts Write::write may return for a buffer of n bytes: it makes one
\* attempt and reports how many bytes it took, from 1 to n
WriteCounts(n) == 1..n

\* stream.write(&buf[..bytes_read])?; the count written is dropped
EchoWrite(c) ==
    /\ program \in EchoPrograms
    /\ wk[c].pc = "write"
    /\ IF rst[c]
       THEN /\ ReturnErr(c, "BrokenPipe")
            /\ out' = out
       ELSE /\ \E n \in WriteCounts(wk[c].bytes_read) :
                 /\ out' = [out EXCEPT ![c] = @ \o Take(wk[c].buf, n)]
                 /\ wk' = [wk EXCEPT ![c] = [@ EXCEPT !.pc = "read", !.written = n]]
            /\ UNCHANGED <<cst, stderr>>
    /\ UNCHANGED <<program, build, payload, nsent, wire, eof, rst, acc>>
    /\ UNCHANGED <<udpVars, clientVars, startVars, libVars>>

(* handle_client of 32_json_tcp_client_and_server. *)

\* BufRead::read_until(b'\n', &mut data) over the bytes avail of the
\* BufReader: up to and including the first newline go to data and the call
\* is over, or all of them go to data and the call reads on
Scanned(w, avail) ==
    IF Find(avail, NL) > 0
    THEN [w EXCEPT !.buf = @ \o Take(avail, Find(avail, NL)),
                   !.rbuf = Drop(avail, Find(avail, NL)),
                   !.bytes_read = Len(w.buf) + Find(avail, NL),
                   !.pc = "decode"]
    ELSE [w EXCEPT !.buf = @ \o avail, !.rbuf = <<>>]

\* read_until at the end of the stream: Ok(the bytes read so far)
AtEof(w) ==
    [w EXCEPT !.bytes_read = Len(w.buf), !.pc = "decode"]

\* let bytes_read = stream.read_until(b'\n', &mut data)?;
\* if bytes_read == 0 { return Ok(()) }
\* One step is one look at the BufReader's buffer, refilled from the socket
\* when it is empty.
ReadUntil(c) ==
    /\ program = "json"
    /\ wk[c].pc = "read_until"
    /\ \/ /\ wk[c].rbuf /= <<>>
          /\ wk' = [wk EXCEPT ![c] = Scanned(@, wk[c].rbuf)]
          /\ UNCHANGED <<cst, stderr, wire>>
       \/ /\ wk[c].rbuf = <<>> /\ rst[c]
          /\ ReturnErr(c, "ConnectionReset")
          /\ wire' = wire
       \/ /\ wk[c].rbuf = <<>> /\ ~rst[c] /\ wire[c] /= <<>>
          /\ wk' = [wk EXCEPT ![c] = Scanned(@, wire[c])]
          /\ wire' = [wire EXCEPT ![c] = <<>>]
          /\ UNCHANGED <<cst, stderr>>
       \/ /\ wk[c].rbuf = <<>> /\ ~rst[c] /\ wire[c] = <<>> /\ eof[c]
          /\ IF wk[c].buf = <<>>
             THEN ReturnOk(c)
             ELSE /\ wk' = [wk EXCEPT ![c] = AtEof(@)]
                  /\ UNCHANGED <<cst, stderr>>
          /\ wire' = wire
    /\ UNCHANGED <<program, build, payload, nsent, eof, rst, out, acc>>
    /\ UNCHANGED <<udpVars, clientVars, startVars, libVars>>

\* (mutant) serde_json::from_slice(&data).unwrap()
DecodeFailure_Unwrap(c) == Panicked(c, "called Result::unwrap() on an Err value")

\* serde_json::from_slice(&data)? failed: the error converts to an io::Error
\* and handle_client returns it
DecodeFailure(c) == ReturnErr(c, "InvalidData")

\* let input: Point3D = serde_json::from_slice(&data)?;
Decode(c) ==
    /\ program = "json"
    /\ wk[c].pc = "decode"
    /\ IF from_slice(wk[c].buf).ok
       THEN /\ wk' = [wk EXCEPT ![c] = [@ EXCEPT !.pc = "compute",
                         !.input = [x |-> from_slice(wk[c].buf).x,
                                    y |-> from_slice(wk[c].buf).y,
                                    z |-> from_slice(wk[c].buf).z]]]
            /\ UNCHANGED <<cst, stderr>>
       ELSE DecodeFailure(c)
    /\ UNCHANGED <<program, build, payload, nsent, wire, eof, rst, out, acc>>
    /\ UNCHANGED <<udpVars, clientVars, startVars, libVars>>

\* let value = input.x.pow(2) + input.y.pow(2) + input.z.pow(2);
\* an overflow panics where overflow checks are on and wraps where they are off
Compute(c) ==
    /\ program = "json"
    /\ wk[c].pc = "compute"
    /\ IF SumOfSquares(wk[c].input).ovf /\ build = "debug"
       THEN Panicked(c, "attempt to multiply or add with overflow")
       ELSE /\ wk' = [wk EXCEPT ![c] = [@ EXCEPT !.pc = "write_norm",
                                                 !.value = SumOfSquares(wk[c].input).v]]
            /\ UNCHANGED <<cst, stderr>>
    /\ UNCHANGED <<program, build, payload, nsent, wire, eof, rst, out, acc>>
    /\ UNCHANGED <<udpVars, clientVars, startVars, libVars>>

\* write!(stream.get_mut(), "{}", f64::from(value).sqrt())?;
WriteNorm(c) ==
    /\ program = "json"
    /\ wk[c].pc = "write_norm"
    /\ IF rst[c]
       THEN /\ ReturnErr(c, "BrokenPipe")
            /\ out' = out
       ELSE /\ out' = [out EXCEPT ![c] = @ \o FormatSqrt(wk[c].value)]
            /\ wk' = [wk EXCEPT ![c] = [@ EXCEPT !.pc = "write_nl"]]
            /\ UNCHANGED <<cst, stderr>>
    /\ UNCHANGED <<program, build, payload, nsent, wire, eof, rst, acc>>
    /\ UNCHANGED <<udpVars, clientVars, startVars, libVars>>

\* write!(stream.get_mut(), "{}", "\n")?; then the loop's data.clear()
WriteNewline(c) ==
    /\ program = "json"
    /\ wk[c].pc = "write_nl"
    /\ IF rst[c]
       THEN /\ ReturnErr(c, "BrokenPipe")
            /\ out' = out
       ELSE /\ out' = [out EXCEPT ![c] = @ \o <<NL>>]
            /\ wk' = [wk EXCEPT ![c] = [@ EXCEPT !.pc = "read_until", !.buf = <<>>]]
            /\ UNCHANGED <<cst, stderr>>
    /\ UNCHANGED <<program, build, payload, nsent, wire, eof, rst, acc>>
    /\ UNCHANGED <<udpVars, clientVars, startVars, libVars>>

---------------------------------------------------------------------------
(* The datagram server: 30_simple_udp_server.                              *)

\* let mut buf = [0u8; 1500]
UDP_BUF_SIZE == 1500

UdpPayloads == {<<"h", "i">>, <<"y", "o", "!">>}

NoDatagram == [st |-> "unsent", src |-> "", data |-> <<>>]
NoUdpWorker == [pc |-> "none", src |-> "", buf |-> <<>>]

\* (mutant) the buffer cut to the bytes received
RecvInto_Received(buf, data) == Take(data, Len(buf))

\* recv_from(&mut buf): the datagram's bytes, cut to the buffer's length,
\* replace the first bytes of buf
RecvInto(buf, data) == Take(data, Len(buf)) \o Drop(buf, Len(Take(data, Len(buf))))

\* (mutant) the datagram answered on the receive loop's own thread
UdpAfterSpawn_Inline(d) == "handling"

\* where the receive loop is after thread::spawn: at the top of the loop
UdpAfterSpawn(d) == "clone"

\* the panic hook's message of a panicking thread
UdpReported(d, what) == stderr \cup {[by |-> "worker", id |-> d, msg |-> what]}

\* a peer sends the next datagram
PeerSend(d) ==
    /\ program = "udp"
    /\ dgram[d].st = "unsent"
    /\ \A e \in 1..(d - 1) : dgram[e].st /= "unsent"
    /\ \E p \in Peers, data \in UdpPayloads :
          dgram' = [dgram EXCEPT ![d] = [st |-> "inflight", src |-> p, data |-> data]]
    /\ UNCHANGED <<program, build, stderr, rcv, uwk, replies>>
    /\ UNCHANGED <<streamVars, clientVars, startVars, libVars>>

\* let sock = socket.try_clone().expect("Failed to clone socket"), done
TryCloneOk ==
    /\ program = "udp"
    /\ rcv.pc = "clone"
    /\ rcv' = [rcv EXCEPT !.pc = "recv"]
    /\ UNCHANGED <<program, build, stderr, dgram, uwk, replies>>
    /\ UNCHANGED <<streamVars, clientVars, startVars, libVars>>

\* try_clone() failed: expect panics on the main thread and the process is over
TryCloneFail ==
    /\ program = "udp"
    /\ rcv.pc = "clone"
    /\ rcv' = [rcv EXCEPT !.pc = "panicked"]
    /\ stderr' = stderr \cup {[by |-> "main", id |-> 0, msg |-> "Failed to clone socket"]}
    /\ UNCHANGED <<program, build, dgram, uwk, replies>>
    /\ UNCHANGED <<streamVars, clientVars, startVars, libVars>>

\* Ok((_, src)) => thread::spawn(move || ...), the worker owning sock, buf and src
RecvOk(d) ==
    /\ program = "udp"
    /\ rcv.pc = "recv"
    /\ dgram[d].st = "inflight"
    /\ dgram' = [dgram EXCEPT ![d].st = "received"]
    /\ uwk' = [uwk EXCEPT ![d] = [pc |-> "send", src |-> dgram[d].src,
                                  buf |-> RecvInto(Zeros(UDP_BUF_SIZE), dgram[d].data)]]
    /\ rcv' = [rcv EXCEPT !.pc = UdpAfterSpawn(d)]
    /\ UNCHANGED <<program, build, stderr, replies>>
    /\ UNCHANGED <<streamVars, clientVars, startVars, libVars>>

\* Err(e) => eprintln!("Failed to receive datagram: {}", e)
RecvErr ==
    /\ program = "udp"
    /\ rcv.pc = "recv"
    /\ rcv.errs < MaxRecvErrs
    /\ rcv' = [rcv EXCEPT !.pc = "clone", !.errs = @ + 1]
    /\ stderr' = stderr \cup {[by |-> "main", id |-> rcv.errs + 1,
                               msg |-> "Failed to receive datagram"]}
    /\ UNCHANGED <<program, build, dgram, uwk, replies>>
    /\ UNCHANGED <<streamVars, clientVars, startVars, libVars>>

\* sock.send_to(&buf, &src).expect("Failed to send a response"), sent
UdpSendOk(d) ==
    /\ program = "udp"
    /\ rcv.pc /= "panicked"
    /\ uwk[d].pc = "send"
    /\ replies' = replies \cup {[of |-> d, to |-> uwk[d].src, data |-> uwk[d].buf]}
    /\ uwk' = [uwk EXCEPT ![d].pc = "done"]
    /\ UNCHANGED <<program, build, stderr, rcv, dgram>>
    /\ UNCHANGED <<streamVars, clientVars, startVars, libVars>>

\* send_to failed: expect panics on the worker thread
UdpSendFail(d) ==
    /\ program = "udp"
    /\ rcv.pc /= "panicked"
    /\ uwk[d].pc = "send"
    /\ uwk' = [uwk EXCEPT ![d].pc = "panicked"]
    /\ stderr' = UdpReported(d, "Failed to send a response")
    /\ UNCHANGED <<program, build, rcv, dgram, replies>>
    /\ UNCHANGED <<streamVars, clientVars, startVars, libVars>>

---------------------------------------------------------------------------
(* The clients: 27_simple_tcp_client, 29_timeout_tcp_client and the client *)
(* half of 32_json_tcp_client_and_server, each connected to a server that  *)
(* answers as the repository's server for it does (26 echoes, 32 replies   *)
(* the norm), that may also answer with bytes that are no text, close the  *)
(* connection, or (srv.mute) never do anything.                            *)

ClientPrograms == {"client27", "client29", "client32"}

\* the byte 0xFF, which no UTF-8 text contains
XFF == "XFF"

\* str::from_utf8(&buffer).is_ok(), for ASCII bytes and 0xFF
IsUtf8(b) == XFF \notin Range(b)

NoClient ==
    [pc |-> "none", input |-> <<>>, request |-> <<>>, buffer |-> <<>>,
     error |-> "", written |-> 0, sent |-> 0, got |-> 0]

NoServer == [mute |-> FALSE, closed |-> FALSE]

\* the lines the user of 32 types: three points and a line with two numbers
Lines32 ==
    { <<"3", ",", "4", ",", "0", NL>>,
      <<"1", ",", "1", ",", "0", NL>>,
      <<"6", "5", "5", "3", "6", ",", "0", ",", "0", NL>>,
      <<"3", ",", "4", NL>> }

\* the user's input, line by line, up to its end
Stdins ==
    IF program = "client32"
    THEN { <<>>,
           << <<"3", ",", "4", ",", "0", NL>> >>,
           << <<"3", ",", "4", ",", "0", NL>>, <<"1", ",", "1", ",", "0", NL>> >>,
           << <<"6", "5", "5", "3", "6", ",", "0", ",", "0", NL>> >>,
           << <<"3", ",", "4", NL>> >> }
    ELSE { <<>>,
           << <<"a", "b", NL>> >>,
           << <<"a", "b", NL>>, <<"c", NL>> >> }

\* (mutant) no read timeout set
read_timeout_Unset == "None"

\* set_read_timeout(Some(timeout)) in 29; the others never set one
read_timeout == IF program = "client29" THEN "Some" ELSE "None"

\* the kind of the io::Error of a read that timed out: WouldBlock on Unix,
\* TimedOut on Windows
TimeoutKinds == {"WouldBlock", "TimedOut"}

\* the panic of the client's main thread: the message goes to standard
\* error and the process is over
ClientPanics(what) ==
    /\ cl' = [cl EXCEPT !.pc = "panicked", !.error = what]
    /\ stderr' = stderr \cup {[by |-> "client", id |-> 0, msg |-> what]}

\* input.trim_matches('\n')
RECURSIVE TrimNl(_)
TrimNl(t) ==
    IF t = <<>> THEN t
    ELSE IF Head(t) = NL THEN TrimNl(Tail(t))
    ELSE IF t[Len(t)] = NL THEN TrimNl(SubSeq(t, 1, Len(t) - 1))
    ELSE t

\* .split(',').collect()
RECURSIVE SplitComma(_)
SplitComma(t) ==
    IF Find(t, ",") = 0 THEN <<t>>
    ELSE <<Take(t, Find(t, ",") - 1)>> \o SplitComma(Drop(t, Find(t, ",")))

\* str::parse::<u32>(): digits after an optional +, in range
ParseU32(t) ==
    LET d == IF t /= <<>> /\ Head(t) = "+" THEN Tail(t) ELSE t
    IN  IF d = <<>> \/ \E i \in 1..Len(d) : ~IsDigit(d[i]) THEN JsonErr
        ELSE IF ~FitsU32(BigOfDecimal(d)) THEN JsonErr
        ELSE [ok |-> TRUE, val |-> BigOfDecimal(d)]

\* the statement after read_line: 32 builds the point, 27 and 29 write the
\* line as it is
AfterReadLine == IF program = "client32" THEN "parse" ELSE "write"

\* stdin().read_line(&mut input).expect(..): the next line, or Ok(0) and
\* nothing in input at the end of the input
ReadLine ==
    /\ program \in ClientPrograms
    /\ cl.pc = "read_line"
    /\ IF stdin = <<>>
       THEN /\ cl' = [cl EXCEPT !.pc = AfterReadLine, !.input = <<>>,
                                !.request = <<>>, !.buffer = <<>>]
            /\ stdin' = stdin
       ELSE /\ cl' = [cl EXCEPT !.pc = AfterReadLine, !.input = Head(stdin),
                                !.request = Head(stdin), !.buffer = <<>>]
            /\ stdin' = Tail(stdin)
    /\ UNCHANGED <<tx, rx, srv, stdout, stderr>>
    /\ UNCHANGED <<program, build, streamVars, udpVars, startVars, libVars>>

\* Point3D { x: parts[0].parse().unwrap(), y: .., z: .. }: the fields in
\* order, the first missing part or failed parse panics
PointOf(parts) ==
    IF \E i \in 1..3 : i > Len(parts) \/ ~ParseU32(parts[i]).ok
    THEN LET i == CHOOSE k \in 1..3 :
                      /\ k > Len(parts) \/ ~ParseU32(parts[k]).ok
                      /\ \A j \in 1..(k - 1) : j <= Len(parts) /\ ParseU32(parts[j]).ok
         IN  [ok |-> FALSE,
              why |-> IF i > Len(parts) THEN "index out of bounds"
                      ELSE "called Result::unwrap() on an Err value"]
    ELSE [ok |-> TRUE, x |-> ParseU32(parts[1]).val, y |-> ParseU32(parts[2]).val,
          z |-> ParseU32(parts[3]).val]

\* the line split at the commas, the point, its JSON text and a newline
BytesOut(input) ==
    LET pt == PointOf(SplitComma(TrimNl(input)))
    IN  IF pt.ok
        THEN [ok |-> TRUE, bytes |-> to_string(pt.x, pt.y, pt.z) \o <<NL>>]
        ELSE pt

\* BytesOut of every line the user may type and of the empty line that
\* read_line leaves at the end of the input
BytesOutOf == [input \in Lines32 \cup {<<>>} |-> BytesOut(input)]

\* 32: from the split of the line to bytes_out
ParseInput ==
    /\ program = "client32"
    /\ cl.pc = "parse"
    /\ IF BytesOutOf[cl.input].ok
       THEN /\ cl' = [cl EXCEPT !.pc = "write", !.request = BytesOutOf[cl.input].bytes]
            /\ stderr' = stderr
       ELSE ClientPanics(BytesOutOf[cl.input].why)
    /\ UNCHANGED <<stdin, tx, rx, srv, stdout>>
    /\ UNCHANGED <<program, build, streamVars, udpVars, startVars, libVars>>

\* the bytes the write takes: write_all (32) all of them, one Write::write
\* (27, 29) any number from 1 on, and 0 of an empty request
ClientWriteCounts(request) ==
    IF program = "client32" \/ request = <<>> THEN {Len(request)}
    ELSE WriteCounts(Len(request))

\* stream.write(input.as_bytes()).expect(..) in 27 and 29,
\* stream.write_all(&bytes_out).expect(..) in 32; on a connection the server
\* has closed the write fails or is taken by the kernel and lost
ClientWrite ==
    /\ program \in ClientPrograms
    /\ cl.pc = "write"
    /\ \/ /\ srv.closed
          /\ ClientPanics("BrokenPipe")
          /\ tx' = tx
       \/ /\ \E n \in ClientWriteCounts(cl.request) :
                /\ cl' = [cl EXCEPT !.pc = "read_until", !.written = n,
                              !.sent = IF cl.request = <<>> THEN @ ELSE @ + 1]
                /\ tx' = IF srv.closed THEN tx ELSE tx \o Take(cl.request, n)
          /\ stderr' = stderr
    /\ UNCHANGED <<stdin, rx, srv, stdout>>
    /\ UNCHANGED <<program, build, streamVars, udpVars, startVars, libVars>>

\* BufReader::new(&stream).read_until(b'\n', &mut buffer).expect(..): one
\* step is one read of the socket into the BufReader; what it read after
\* the newline is dropped with the BufReader
ClientReadUntil ==
    /\ program \in ClientPrograms
    /\ cl.pc = "read_until"
    /\ \/ /\ rx /= <<>>
          /\ cl' = IF Find(rx, NL) > 0
                   THEN [cl EXCEPT !.buffer = @ \o Take(rx, Find(rx, NL)), !.pc = "print"]
                   ELSE [cl EXCEPT !.buffer = @ \o rx]
          /\ rx' = <<>>
       \/ /\ rx = <<>> /\ srv.closed
          /\ cl' = [cl EXCEPT !.pc = "print"]
          /\ rx' = rx
    /\ UNCHANGED <<stdin, tx, srv, stdout, stderr>>
    /\ UNCHANGED <<program, build, streamVars, udpVars, startVars, libVars>>

\* (mutant) the timed-out read taken for an empty response
TimedOut_Resumes(kind) ==
    /\ cl' = [cl EXCEPT !.pc = "print", !.error = kind]
    /\ stderr' = stderr

\* .expect("Failed to read into buffer") on the error of the timed-out read
TimedOut(kind) == ClientPanics(kind)

\* no byte has arrived within the read timeout: the read returns the error
\* and expect panics
ReadTimesOut ==
    /\ program \in ClientPrograms
    /\ cl.pc = "read_until"
    /\ read_timeout = "Some"
    /\ rx = <<>> /\ ~srv.closed
    /\ \E kind \in TimeoutKinds : TimedOut(kind)
    /\ UNCHANGED <<stdin, tx, rx, srv, stdout>>
    /\ UNCHANGED <<program, build, streamVars, udpVars, startVars, libVars>>

\* "Response from server: "
ResponsePrefix ==
    <<"R", "e", "s", "p", "o", "n", "s", "e", " ", "f", "r", "o", "m", " ",
      "s", "e", "r", "v", "e", "r", ":", " ">>

\* what print! writes: 27 and 29 the text, 32 the text after the prefix
Printed(text) ==
    IF program = "client32" THEN ResponsePrefix \o text ELSE text

\* str::from_utf8(&buffer).expect(..) on bytes that are no UTF-8
BadUtf8(b) ==
    /\ ClientPanics("Utf8Error")
    /\ stdout' = stdout

\* let utf8 = str::from_utf8(&buffer).expect(..); print!(..): in 32 after
\* eprintln!("Empty response from server") for an empty text
ClientPrint ==
    /\ program \in ClientPrograms
    /\ cl.pc = "print"
    /\ IF IsUtf8(cl.buffer)
       THEN /\ cl' = [cl EXCEPT !.pc = "read_line",
                         !.got = IF cl.buffer /= <<>> /\ cl.buffer[Len(cl.buffer)] = NL
                                 THEN @ + 1 ELSE @]
            /\ stdout' = stdout \o Printed(cl.buffer)
            /\ stderr' = IF program = "client32" /\ cl.buffer = <<>>
                         THEN stderr \cup {[by |-> "client", id |-> 0,
                                            msg |-> "Empty response from server"]}
                         ELSE stderr
       ELSE BadUtf8(cl.buffer)
    /\ UNCHANGED <<stdin, tx, rx, srv>>
    /\ UNCHANGED <<program, build, streamVars, udpVars, startVars, libVars>>

(* The server of the client. *)

\* what the JSON server does with one request line: the reply, or the end
\* of the connection when its worker returns an error or panics
JsonReply(line) ==
    IF ~from_slice(line).ok THEN [closes |-> TRUE, bytes |-> <<>>]
    ELSE IF SumOfSquares(from_slice(line)).ovf /\ build = "debug"
    THEN [closes |-> TRUE, bytes |-> <<>>]
    ELSE [closes |-> FALSE,
          bytes |-> FormatSqrt(SumOfSquares(from_slice(line)).v) \o <<NL>>]

\* the server reads what the client wrote and answers it: the echo server
\* with the same bytes, the JSON server line by line
ServerReply ==
    /\ program \in ClientPrograms
    /\ ~srv.mute /\ ~srv.closed
    /\ tx /= <<>>
    /\ IF program = "client32"
       THEN /\ Find(tx, NL) > 0
            /\ rx' = rx \o JsonReply(Take(tx, Find(tx, NL))).bytes
            /\ srv' = [srv EXCEPT !.closed = JsonReply(Take(tx, Find(tx, NL))).closes]
            /\ tx' = IF srv'.closed THEN <<>> ELSE Drop(tx, Find(tx, NL))
       ELSE /\ rx' = rx \o tx
            /\ tx' = <<>>
            /\ srv' = srv
    /\ UNCHANGED <<cl, stdin, stdout, stderr>>
    /\ UNCHANGED <<program, build, streamVars, udpVars, startVars, libVars>>

\* a server that answers a request with a line that is no text
ServerGarbage ==
    /\ program \in ClientPrograms
    /\ ~srv.mute /\ ~srv.closed
    /\ tx /= <<>>
    /\ rx' = rx \o <<XFF, NL>>
    /\ tx' = <<>>
    /\ UNCHANGED <<cl, stdin, srv, stdout, stderr>>
    /\ UNCHANGED <<program, build, streamVars, udpVars, startVars, libVars>>

\* the server closes the connection
ServerClose ==
    /\ program \in ClientPrograms
    /\ ~srv.mute /\ ~srv.closed
    /\ srv' = [srv EXCEPT !.closed = TRUE]
    /\ tx' = <<>>
    /\ UNCHANGED <<cl, stdin, rx, stdout, stderr>>
    /\ UNCHANGED <<program, build, streamVars, udpVars, startVars, libVars>>

---------------------------------------------------------------------------
(* One point of 32_json_tcp_client_and_server on its way: the client       *)
(* serializes its Point3D to a line, the server deserializes the line and  *)
(* replies the norm.                                                       *)

\* u32::MAX
U32Max == <<255, 255, 255, 255>>

\* the values of a field: small ones, 2^16 (whose square is 2^32) and u32::MAX
U32Samples == {BigOfInt(n) : n \in {0, 1, 2, 3, 4, 65536}} \cup {U32Max}

\* Point3D { x, y, z }
Points == [x : U32Samples, y : U32Samples, z : U32Samples]

NoPoint == [x |-> <<>>, y |-> <<>>, z |-> <<>>]

NoCodec ==
    [pc |-> "none", point |-> NoPoint, bytes_out |-> <<>>, input |-> NoPoint,
     reply |-> <<>>]

\* let json = serde_json::to_string(&point).unwrap();
\* bytes_out.extend(json.as_bytes()); bytes_out.extend("\n".as_bytes())
Serialize ==
    /\ program = "codec"
    /\ codec.pc = "to_string"
    /\ codec' = [codec EXCEPT !.pc = "from_slice",
                              !.bytes_out = to_string(codec.point.x, codec.point.y,
                                                      codec.point.z) \o <<NL>>]
    /\ UNCHANGED <<program, build, stderr, cacher, counter, tracker>>
    /\ UNCHANGED <<streamVars, udpVars, clientVars, startVars>>

\* let input: Point3D = serde_json::from_slice(&data)?, data being the line
\* with its newline
Deserialize ==
    /\ program = "codec"
    /\ codec.pc = "from_slice"
    /\ codec' = IF from_slice(codec.bytes_out).ok
                THEN [codec EXCEPT !.pc = "value",
                                   !.input = [x |-> from_slice(codec.bytes_out).x,
                                              y |-> from_slice(codec.bytes_out).y,
                                              z |-> from_slice(codec.bytes_out).z]]
                ELSE [codec EXCEPT !.pc = "err"]
    /\ UNCHANGED <<program, build, stderr, cacher, counter, tracker>>
    /\ UNCHANGED <<streamVars, udpVars, clientVars, startVars>>

\* let value = input.x.pow(2) + input.y.pow(2) + input.z.pow(2);
\* write!(.., "{}", f64::from(value).sqrt())?; write!(.., "{}", "\n")?
\* an overflow panics where overflow checks are on and wraps where they are off
Norm ==
    /\ program = "codec"
    /\ codec.pc = "value"
    /\ codec' = IF SumOfSquares(codec.input).ovf /\ build = "debug"
                THEN [codec EXCEPT !.pc = "panicked"]
                ELSE [codec EXCEPT !.pc = "replied",
                                   !.reply = FormatSqrt(SumOfSquares(codec.input).v)
                                                \o <<NL>>]
    /\ UNCHANGED <<program, build, stderr, cacher, counter, tracker>>
    /\ UNCHANGED <<streamVars, udpVars, clientVars, startVars>>

---------------------------------------------------------------------------
(* The exercises with state of their own: Cacher and Counter of            *)
(* 21_iterators_and_closures and LimitTracker of 23_smart_pointers, each   *)
(* with the calls a caller makes on one value of the type.  The calls made *)
(* and what they returned are kept with the value.                         *)

\* calls of value on one Cacher
MaxCalls == 3
\* the largest argument of value
MaxArg == 2
\* calls of next on one Counter
MaxNexts == 8
\* calls of set_value on one LimitTracker
MaxSets == 2
\* the largest max of a LimitTracker; values go a little beyond
MaxQuota == 10

LibPrograms == {"cacher", "counter", "tracker"}

\* Option<u32>
None == [some |-> FALSE, v |-> 0]
Some(v) == [some |-> TRUE, v |-> v]

(* Cacher *)

\* the closure of call_with_different_values, |a| a, and the one of
\* generate_workout_with_lazy_evaluation, which returns num
calculation(arg) == arg

\* Cacher::new(calculation); ran counts the runs of the closure
NewCacher == [value |-> None, ran |-> 0, args |-> <<>>, rets |-> <<>>]

\* (mutant) the calculation run on every call
value_Recomputed(self, arg) ==
    [self EXCEPT !.value = Some(calculation(arg)), !.ran = @ + 1,
                 !.args = Append(@, arg), !.rets = Append(@, calculation(arg))]

\* Cacher::value(&mut self, arg): match self.value { Some(v) => v,
\* None => { let v = (self.calculation)(arg); self.value = Some(v); v } }
value(self, arg) ==
    IF self.value.some
    THEN [self EXCEPT !.args = Append(@, arg), !.rets = Append(@, self.value.v)]
    ELSE [self EXCEPT !.value = Some(calculation(arg)), !.ran = @ + 1,
                      !.args = Append(@, arg), !.rets = Append(@, calculation(arg))]

\* c.value(arg)
CallValue ==
    /\ program = "cacher"
    /\ Len(cacher.args) < MaxCalls
    /\ \E arg \in 0..MaxArg : cacher' = value(cacher, arg)
    /\ UNCHANGED <<program, build, stderr, codec, counter, tracker>>
    /\ UNCHANGED <<streamVars, udpVars, clientVars, startVars>>

(* Counter *)

\* Counter::new()
NewCounter == [count |-> 0, rets |-> <<>>]

\* (mutant) the bound tested after the increment's value
next_Inclusive(self) ==
    IF self.count <= 5
    THEN [self EXCEPT !.count = @ + 1, !.rets = Append(@, Some(self.count + 1))]
    ELSE [self EXCEPT !.rets = Append(@, None)]

\* Iterator::next(&mut self): if self.count < 5 { self.count += 1;
\* Some(self.count) } else { None }
next(self) ==
    IF self.count < 5
    THEN [self EXCEPT !.count = @ + 1, !.rets = Append(@, Some(self.count + 1))]
    ELSE [self EXCEPT !.rets = Append(@, None)]

\* counter.next()
CallNext ==
    /\ program = "counter"
    /\ Len(counter.rets) < MaxNexts
    /\ counter' = next(counter)
    /\ UNCHANGED <<program, build, stderr, codec, cacher, tracker>>
    /\ UNCHANGED <<streamVars, udpVars, clientVars, startVars>>

(* LimitTracker *)

\* LimitTracker::new(&mock_messenger, max), with MockMessenger::new():
\* sent is the messenger's sent_messages, sets the values set so far
NewTracker(max) == [value |-> 0, max |-> max, sent |-> <<>>, sets |-> <<>>]

\* self.value as f64 / self.max as f64: 0/0 is NaN, v/0 is infinity, and
\* else the quotient, rounded to the nearest f64
percent(v, max) ==
    IF max = 0 THEN [is |-> IF v = 0 THEN "NaN" ELSE "inf", n |-> v, d |-> max]
    ELSE [is |-> "finite", n |-> v, d |-> max]

\* percent >= n/d for the literals 1.0, 0.9 and 0.75: false of NaN, true of
\* infinity; the f64 nearest a quotient of integers below 2^50 is below the
\* f64 nearest n/d exactly when the quotient is below n/d
AtLeast(p, n, d) ==
    CASE p.is = "NaN" -> FALSE
      [] p.is = "inf" -> TRUE
      [] OTHER -> p.n * d >= n * p.d

\* the message of set_value for percent, << >> when it sends none
Message(p) ==
    IF AtLeast(p, 1, 1) THEN <<"Oops: over quota">>
    ELSE IF AtLeast(p, 9, 10) THEN <<"Warning: quota over 90%">>
    ELSE IF AtLeast(p, 3, 4) THEN <<"Warning: quota over 75%">>
    ELSE <<>>

\* LimitTracker::set_value(&mut self, value), the messenger pushing what it
\* is sent
set_value(self, v) ==
    [self EXCEPT !.value = v, !.sent = @ \o Message(percent(v, self.max)),
                 !.sets = Append(@, v)]

\* limit_tracker.set_value(v)
CallSetValue ==
    /\ program = "tracker"
    /\ Len(tracker.sets) < MaxSets
    /\ \E v \in 0..(MaxQuota + 2) : tracker' = set_value(tracker, v)
    /\ UNCHANGED <<program, build, stderr, codec, cacher, counter>>
    /\ UNCHANGED <<streamVars, udpVars, clientVars, startVars>>

---------------------------------------------------------------------------
(* The runs.                                                               *)

Programs == {"echo", "sleep", "json", "udp"}

\* the servers' state when the listener or the socket has been bound
ServersAtStart ==
    /\ cst = [c \in Conns |-> "idle"]
    /\ payload = [c \in Conns |-> <<>>]
    /\ nsent = [c \in Conns |-> 0]
    /\ wire = [c \in Conns |-> <<>>]
    /\ eof = [c \in Conns |-> FALSE]
    /\ rst = [c \in Conns |-> FALSE]
    /\ out = [c \in Conns |-> <<>>]
    /\ wk = [c \in Conns |-> NoWorker]
    /\ acc = [pc |-> "incoming", errs |-> 0, n |-> 0]
    /\ stderr = {}
    /\ rcv = [pc |-> "clone", errs |-> 0]
    /\ dgram = [d \in Datagrams |-> NoDatagram]
    /\ uwk = [d \in Datagrams |-> NoUdpWorker]
    /\ replies = {}

NoClientRuns ==
    /\ cl = NoClient /\ stdin = <<>> /\ tx = <<>> /\ rx = <<>>
    /\ srv = NoServer /\ stdout = <<>>

\* the process is in its loop
Running == [pc |-> "running", code |-> -1]

StartIsOver == args = <<>> /\ proc = Running

\* no point on its way and no value of the exercises' types
NoLibRuns ==
    /\ codec = NoCodec /\ cacher = NewCacher /\ counter = NewCounter
    /\ tracker = NewTracker(0)

Init ==
    /\ program \in Programs
    /\ build \in (IF program = "json" THEN {"debug", "release"} ELSE {"debug"})
    /\ ServersAtStart
    /\ NoClientRuns
    /\ StartIsOver
    /\ NoLibRuns

Next ==
    \/ \E c \in Conns : Connect(c)
    \/ \E c \in Conns : ClientSend(c)
    \/ \E c \in Conns : ClientShutdown(c)
    \/ \E c \in Conns : ClientReset(c)
    \/ \E c \in Conns : AcceptOk(c)
    \/ AcceptErr
    \/ \E c \in Conns : PeerAddr(c)
    \/ \E c \in Conns : EchoRead(c)
    \/ \E c \in Conns : Sleep(c)
    \/ \E c \in Conns : EchoWrite(c)
    \/ \E c \in Conns : ReadUntil(c)
    \/ \E c \in Conns : Decode(c)
    \/ \E c \in Conns : Compute(c)
    \/ \E c \in Conns : WriteNorm(c)
    \/ \E c \in Conns : WriteNewline(c)
    \/ \E d \in Datagrams : PeerSend(d)
    \/ TryCloneOk
    \/ TryCloneFail
    \/ \E d \in Datagrams : RecvOk(d)
    \/ RecvErr
    \/ \E d \in Datagrams : UdpSendOk(d)
    \/ \E d \in Datagrams : UdpSendFail(d)

Spec == Init /\ [][Next]_vars

(* The runs of the clients, from the connection on. *)

ClientInit ==
    /\ program \in ClientPrograms
    /\ build \in (IF program = "client32" THEN {"debug", "release"} ELSE {"debug"})
    /\ ServersAtStart
    /\ StartIsOver
    /\ NoLibRuns
    /\ cl = [NoClient EXCEPT !.pc = "read_line"]
    /\ stdin \in Stdins
    /\ tx = <<>> /\ rx = <<>> /\ stdout = <<>>
    /\ srv \in {[NoServer EXCEPT !.mute = b] : b \in BOOLEAN}

\* the steps of the client's thread
ClientStep ==
    \/ ReadLine
    \/ ParseInput
    \/ ClientWrite
    \/ ClientReadUntil
    \/ ReadTimesOut
    \/ ClientPrint

ClientNext ==
    \/ ClientStep
    \/ ServerReply
    \/ ServerGarbage
    \/ ServerClose

\* the client's thread is scheduled, and time passes
ClientSpec == ClientInit /\ [][ClientNext]_vars /\ WF_vars(ClientStep)

---------------------------------------------------------------------------
(* The start of a process: main up to the loop of the server or of the     *)
(* client.  The servers 26, 28 and 30 bind first thing; 32 looks at its    *)
(* arguments and is a server or a client.                                  *)

StartPrograms == {"echo", "sleep", "udp", "json"}

\* the words of the command line
ArgWords == {"--server", "--client", "--bogus", ""}

\* sequences of at most n words
RECURSIVE ArgLists(_)
ArgLists(n) ==
    IF n = 0 THEN {<<>>}
    ELSE ArgLists(n - 1) \cup
         {a \o <<w>> : a \in {b \in ArgLists(n - 1) : Len(b) = n - 1}, w \in ArgWords}

\* env::args(): the name of the program, then its arguments (args[1] of the
\* code is Argv[2])
Argv == {<<"prog">> \o a : a \in ArgLists(MaxArgs)}

\* std::process::exit(1)
EXIT_FAILURE == 1
\* the exit status of a process whose main thread panicked
EXIT_PANIC == 101
\* the exit status when main returns
EXIT_OK == 0

Exited(code) == [pc |-> "exited", code |-> code]

\* the message of the panic or eprintln! of the main thread
MainSays(what) == stderr \cup {[by |-> "main", id |-> 0, msg |-> what]}

\* if args.len() != 2 { eprintln!(..); std::process::exit(1); }
CheckArgs ==
    /\ program = "json"
    /\ proc.pc = "main"
    /\ IF Len(args) /= 2
       THEN /\ proc' = Exited(EXIT_FAILURE)
            /\ stderr' = MainSays("Expected: [--client] || [--server]")
       ELSE /\ proc' = [proc EXCEPT !.pc = "mode"]
            /\ stderr' = stderr
    /\ UNCHANGED <<program, build, args, streamVars, udpVars, clientVars, libVars>>

\* if args[1] == "--server" { server() } else if args[1] == "--client"
\* { client() }, and with any other word main returns
SelectMode ==
    /\ program = "json"
    /\ proc.pc = "mode"
    /\ proc' = IF args[2] = "--server" THEN [proc EXCEPT !.pc = "bind"]
               ELSE IF args[2] = "--client" THEN [proc EXCEPT !.pc = "connect"]
               ELSE Exited(EXIT_OK)
    /\ UNCHANGED <<program, build, args, stderr, streamVars, udpVars, clientVars, libVars>>

\* TcpListener::bind(..).expect("Failed to bind"), UdpSocket::bind(..)
\* .expect("Failed to bind to socket"): bound, the server is in its loop
BindOk ==
    /\ program \in StartPrograms
    /\ proc.pc = "bind"
    /\ proc' = Running
    /\ UNCHANGED <<program, build, args, stderr, streamVars, udpVars, clientVars, libVars>>

\* bind failed (the address is in use): expect panics on the main thread
BindFail ==
    /\ program \in StartPrograms
    /\ proc.pc = "bind"
    /\ proc' = Exited(EXIT_PANIC)
    /\ stderr' = MainSays(CASE program = "udp" -> "Failed to bind to socket"
                             [] program = "echo" -> "Failed to bind!"
                             [] OTHER -> "Failed to bind")
    /\ UNCHANGED <<program, build, args, streamVars, udpVars, clientVars, libVars>>

\* TcpStream::connect(..).expect("Failed to connect"): connected, the
\* client is in its loop
ConnectOk ==
    /\ program = "json"
    /\ proc.pc = "connect"
    /\ proc' = Running
    /\ UNCHANGED <<program, build, args, stderr, streamVars, udpVars, clientVars, libVars>>

\* connect failed: expect panics on the main thread
ConnectFail ==
    /\ program = "json"
    /\ proc.pc = "connect"
    /\ proc' = Exited(EXIT_PANIC)
    /\ stderr' = MainSays("Failed to connect")
    /\ UNCHANGED <<program, build, args, streamVars, udpVars, clientVars, libVars>>

StartInit ==
    /\ program \in StartPrograms
    /\ build = "debug"
    /\ ServersAtStart
    /\ NoClientRuns
    /\ NoLibRuns
    /\ args \in (IF program = "json" THEN Argv ELSE {<<"prog">>})
    /\ proc = [pc |-> IF program = "json" THEN "main" ELSE "bind", code |-> -1]

StartNext ==
    \/ CheckArgs
    \/ SelectMode
    \/ BindOk
    \/ BindFail
    \/ ConnectOk
    \/ ConnectFail

StartSpec == StartInit /\ [][StartNext]_vars

---------------------------------------------------------------------------
(* The runs of one point and of the exercises.                             *)

CodecInit ==
    /\ program = "codec"
    /\ build \in {"debug", "release"}
    /\ ServersAtStart /\ NoClientRuns /\ StartIsOver
    /\ codec \in {[NoCodec EXCEPT !.pc = "to_string", !.point = p] : p \in Points}
    /\ cacher = NewCacher /\ counter = NewCounter /\ tracker = NewTracker(0)

CodecNext ==
    \/ Serialize
    \/ Deserialize
    \/ Norm

CodecSpec == CodecInit /\ [][CodecNext]_vars

LibInit ==
    /\ program \in LibPrograms
    /\ build = "debug"
    /\ ServersAtStart /\ NoClientRuns /\ StartIsOver
    /\ codec = NoCodec /\ cacher = NewCacher /\ counter = NewCounter
    /\ tracker \in {NewTracker(max) : max \in 0..MaxQuota}

LibNext ==
    \/ CallValue
    \/ CallNext
    \/ CallSetValue

LibSpec == LibInit /\ [][LibNext]_vars

---------------------------------------------------------------------------
(* The claims.                                                             *)

Other(c) == CHOOSE o \in Conns : o /= c

Failed(w) == w.pc \in {"err", "panicked"}

\* the worker waits in a read for a peer that has sent nothing it has not
\* read, and has neither closed nor reset
Stalled(c) ==
    /\ wk[c].pc \in {"read", "read_until"}
    /\ wk[c].rbuf = <<>> /\ wire[c] = <<>> /\ ~eof[c] /\ ~rst[c]

(* C1: concurrent isolation of the echo server.  With both clients         *)
(* accepted, a connection carries only bytes of its own client's payload,  *)
(* and once its worker has read to the end of the stream and returned the  *)
(* client has received exactly its payload.                                *)
C1_EchoIsolation ==
    program = "echo" =>
        \A c \in Conns :
            wk[Other(c)].pc /= "none" =>
                /\ Range(out[c]) \subseteq Range(EchoPayload(c))
                /\ wk[c].pc = "ok" => out[c] = payload[c]

(* C2: within one connection the response to request N is written in full *)
(* before request N+1 is read: an echo worker at its read has written all  *)
(* the bytes of the request it read before, and a JSON worker at its       *)
(* read_until has ended every response it began with the newline.          *)
C2_ResponseWrittenBeforeNextRead ==
    \A c \in Conns :
        /\ (program = "echo" /\ wk[c].pc = "read" /\ wk[c].bytes_read > 0)
               => wk[c].written = wk[c].bytes_read
        /\ (program = "json" /\ wk[c].pc = "read_until" /\ out[c] /= <<>>)
               => out[c][Len(out[c])] = NL

(* C3: the acceptor is never blocked by a worker: whatever the workers of  *)
(* the accepted connections are doing, a connection waiting in the backlog *)
(* can be accepted and handed to its own worker.                           *)
C3_AcceptorNeverBlocked ==
    program \in StreamPrograms =>
        \A c \in Conns : cst[c] = "backlog" => ENABLED AcceptOk(c)

\* the first connection accepted has been stalled since, and the second one
\* was accepted and served to its end
C3_Witness ==
    \E c \in Conns :
        /\ Stalled(c) /\ nsent[c] = 0 /\ wk[c].nth = 1
        /\ wk[Other(c)].nth = 2 /\ wk[Other(c)].pc = "ok"
        /\ out[Other(c)] /= <<>>

(* C4: the sum of squares the JSON worker computes is the mathematical     *)
(* x*x + y*y + z*z for every triple of u32 inputs, and computing it never  *)
(* aborts the worker.                                                      *)
C4_SumOfSquaresExact ==
    program = "json" =>
        \A c \in Conns :
            /\ wk[c].pc /= "panicked"
            /\ wk[c].pc \in {"write_norm", "write_nl"}
                   => wk[c].value = ExactSumOfSquares(wk[c].input)

(* C5: every datagram whose worker has finished got exactly one reply,     *)
(* sent to the datagram's source address, with the datagram's own payload: *)
(* the same bytes and the same length.                                     *)
C5_DatagramEchoedVerbatim ==
    program = "udp" =>
        \A d \in Datagrams :
            /\ Cardinality({r \in replies : r.of = d}) <= 1
            /\ uwk[d].pc = "done" =>
                   \E r \in replies :
                       r.of = d /\ r.to = dgram[d].src /\ r.data = dgram[d].data

(* C6: the receive loop does not wait for a datagram's worker: while the   *)
(* loop is alive, it can take its next step towards recv_from, and it can  *)
(* receive a datagram in flight, whatever the workers are doing.           *)
C6_ReceiverNeverWaitsForWorker ==
    (program = "udp" /\ rcv.pc /= "panicked") =>
        /\ rcv.pc = "clone" => ENABLED TryCloneOk
        /\ rcv.pc /= "clone" =>
               \A d \in Datagrams : dgram[d].st = "inflight" => ENABLED RecvOk(d)

\* a datagram's worker has not sent yet and a later datagram was received
\* and answered
C6_Witness ==
    \E d, e \in Datagrams :
        /\ d < e
        /\ uwk[d].pc = "send"
        /\ uwk[e].pc = "done"

(* C7: a failure of one worker (an error returned by handle_client, a      *)
(* panic of the worker thread) ends the handling of its own connection or  *)
(* datagram only: the step leaves the acceptor or receiver loop running    *)
(* and every other worker and connection as it was, and prints the         *)
(* failure on standard error.                                              *)
C7_WorkerFailureIsolated ==
    [][ /\ \A c \in Conns :
              (~Failed(wk[c]) /\ Failed(wk'[c])) =>
                  /\ acc' = acc /\ acc.pc = "incoming"
                  /\ \A o \in Conns \ {c} :
                         /\ wk'[o] = wk[o] /\ cst'[o] = cst[o]
                         /\ out'[o] = out[o] /\ wire'[o] = wire[o]
                  /\ cst'[c] = "closed"
                  /\ [by |-> "worker", id |-> c, msg |-> wk'[c].error]
                         \in stderr' \ stderr
        /\ \A d \in Datagrams :
              (~Failed(uwk[d]) /\ Failed(uwk'[d])) =>
                  /\ rcv' = rcv /\ rcv.pc /= "panicked"
                  /\ \A o \in Datagrams \ {d} : uwk'[o] = uwk[o]
                  /\ replies' = replies
                  /\ \E l \in stderr' \ stderr : l.by = "worker" /\ l.id = d
      ]_vars

\* one worker has failed and the other connection's worker has a request
\* to read and goes on to read it
C7_Witness ==
    \E c \in Conns :
        /\ Failed(wk[c])
        /\ wk[Other(c)].pc = "decode"
        /\ wk[Other(c)].nth = 2

(* C8: a failure to accept one connection, or to receive or to prepare to  *)
(* receive one datagram, is never fatal: every such failure is logged, the *)
(* loop continues and the server process does not terminate.               *)
C8_PerAcceptFailureNotFatal ==
    /\ acc.pc = "incoming"
    /\ rcv.pc /= "panicked"
    /\ Cardinality({l \in stderr : l.by = "main"}) = acc.errs + rcv.errs

(* C9: the JSON worker handles complete frames only: whatever it has       *)
(* decoded, is handling or is answering ends with the newline delimiter.   *)
C9_OnlyDelimitedFramesHandled ==
    program = "json" =>
        \A c \in Conns :
            wk[c].pc \in {"compute", "write_norm", "write_nl"}
                => (wk[c].buf /= <<>> /\ wk[c].buf[Len(wk[c].buf)] = NL)

(* C10: on a request line that is no valid JSON point the worker returns   *)
(* an error (it does not panic), its connection is closed with no byte     *)
(* written for that line, the error is printed and the other connection is *)
(* untouched; nothing is written to a closed connection afterwards.        *)
C10_MalformedLineClosesWithoutResponse ==
    [][ \A c \in Conns :
            /\ (program = "json" /\ wk[c].pc = "decode"
                   /\ ~from_slice(wk[c].buf).ok /\ wk'[c] /= wk[c]) =>
                  /\ wk'[c].pc = "err" /\ wk'[c].error = "InvalidData"
                  /\ cst'[c] = "closed"
                  /\ out' = out
                  /\ [by |-> "worker", id |-> c, msg |-> "InvalidData"] \in stderr'
                  /\ wk'[Other(c)] = wk[Other(c)]
            /\ cst[c] = "closed" => out'[c] = out[c] /\ cst'[c] = "closed"
      ]_vars

\* the worker of a connection that sent "{not json}\n" has returned the
\* error, having written nothing
C10_Witness ==
    \E c \in Conns :
        /\ wk[c].buf = NotJson
        /\ wk[c].pc = "err" /\ wk[c].error = "InvalidData"
        /\ cst[c] = "closed" /\ out[c] = <<>>

(* C11: a connection's worker moves along Reading -> Decoded -> Handling   *)
(* -> Writing -> Reading only, or into Closed.  Closed is terminal: it is  *)
(* entered on a read of zero bytes, a decode failure, a handler failure    *)
(* and a write failure, and a closed worker reads and writes nothing more. *)
(* A state the program has no step in is passed through: 26 goes from      *)
(* Reading to Writing, 28 sleeps in Handling, 32's handler is the one      *)
(* expression computed in Decoded.                                         *)
Phase(w) ==
    CASE w.pc = "none" -> "Unborn"
      [] w.pc = "peer_addr" -> "Accepted"
      [] w.pc \in {"read", "read_until", "decode"} -> "Reading"
      [] w.pc = "compute" -> "Decoded"
      [] w.pc = "sleep" -> "Handling"
      [] w.pc \in {"write", "write_norm", "write_nl"} -> "Writing"
      [] w.pc \in {"ok", "err", "panicked"} -> "Closed"

Cycle == <<"Reading", "Decoded", "Handling", "Writing">>

CycleRank(ph) == CHOOSE i \in 1..Len(Cycle) : Cycle[i] = ph

Moves(from, to) ==
    \/ from = to
    \/ to = "Closed" /\ from /= "Unborn"
    \/ from = "Unborn" /\ to = "Accepted"
    \/ from = "Accepted" /\ to = "Reading"
    \/ from = "Writing" /\ to = "Reading"
    \/ /\ from \in Range(Cycle) /\ to \in Range(Cycle)
       /\ CycleRank(from) < CycleRank(to)

\* the read the worker is in is going to return zero bytes: the peer has
\* closed and no byte is left, unread or read into an unfinished line
ReadsZero(c) ==
    /\ ~rst[c] /\ eof[c] /\ wire[c] = <<>>
    /\ \/ wk[c].pc = "read"
       \/ wk[c].pc = "read_until" /\ wk[c].rbuf = <<>> /\ wk[c].buf = <<>>

\* the step the worker is about to take can only fail or end the stream
MustClose(c) ==
    \/ ReadsZero(c)
    \/ wk[c].pc = "decode" /\ ~from_slice(wk[c].buf).ok
    \/ wk[c].pc = "compute" /\ build = "debug"
          /\ ExactSumOfSquares(wk[c].input) /= SumOfSquares(wk[c].input).v
    \/ wk[c].pc \in {"write", "write_norm", "write_nl"} /\ rst[c]

C11_WorkerStateMachine ==
    [][ \A c \in Conns :
            /\ Moves(Phase(wk[c]), Phase(wk'[c]))
            /\ (MustClose(c) /\ wk'[c] /= wk[c]) => Phase(wk'[c]) = "Closed"
            /\ Phase(wk[c]) = "Closed" =>
                   /\ wk'[c] = wk[c] /\ cst[c] = "closed" /\ cst'[c] = "closed"
                   /\ out'[c] = out[c] /\ wire'[c] = wire[c]
      ]_vars

\* a JSON worker has gone round the cycle twice, answering two requests,
\* and then closed on the read of zero bytes
C11_Witness ==
    \E c \in Conns :
        /\ program = "json" /\ wk[c].pc = "ok"
        /\ payload[c] = Line(0, 0, 0) \o Line(1, 1, 0)
        /\ out[c] = FormatSqrt(<<>>) \o <<NL>> \o FormatSqrt(<<2>>) \o <<NL>>

(* C12: when the read of a connection returns zero bytes, the peer having  *)
(* closed, the worker returns Ok: it is over, the step writes nothing and  *)
(* prints nothing, and a worker that returned Ok never has an error line   *)
(* on standard error nor writes again.                                     *)
C12_ZeroReadExitsCleanly ==
    [][ \A c \in Conns :
            /\ (ReadsZero(c) /\ wk'[c] /= wk[c]) =>
                   /\ wk'[c].pc = "ok" /\ cst'[c] = "closed"
                   /\ out' = out /\ stderr' = stderr
            /\ wk[c].pc = "ok" =>
                   /\ out'[c] = out[c]
                   /\ ~\E l \in stderr' : l.by = "worker" /\ l.id = c
      ]_vars

\* a worker of the sleeping server has echoed its client's bytes and
\* returned Ok on the read of zero bytes, with nothing on standard error
C12_Witness ==
    \E c \in Conns :
        /\ program = "sleep" /\ wk[c].pc = "ok" /\ eof[c]
        /\ out[c] /= <<>> /\ stderr = {}

(* C13: the injected latency blocks the sleeping worker only: while a      *)
(* worker of the sleeping server is in its sleep, a connection in the      *)
(* backlog can be accepted, and the worker of every other connection can   *)
(* take the next step of its read, sleep and write cycle.                  *)
C13_SleepBlocksOnlyItsWorker ==
    program = "sleep" =>
        \A c \in Conns :
            wk[c].pc = "sleep" =>
                \A o \in Conns \ {c} :
                    /\ cst[o] = "backlog" => ENABLED AcceptOk(o)
                    /\ wk[o].pc = "peer_addr" => ENABLED PeerAddr(o)
                    /\ (wk[o].pc = "read" /\ ~Stalled(o)) => ENABLED EchoRead(o)
                    /\ wk[o].pc = "sleep" => ENABLED Sleep(o)
                    /\ wk[o].pc = "write" => ENABLED EchoWrite(o)

\* the first connection's worker is in the sleep that follows its first
\* read, and the second connection was accepted and served to its end
C13_Witness ==
    \E c \in Conns :
        /\ program = "sleep"
        /\ wk[c].pc = "sleep" /\ wk[c].nth = 1 /\ out[c] = <<>>
        /\ wk[Other(c)].nth = 2 /\ wk[Other(c)].pc = "ok"
        /\ out[Other(c)] = payload[Other(c)]

(* C18: an accepted connection is owned by exactly one worker for its      *)
(* whole life: it has a worker from its accept on and keeps that worker,   *)
(* the workers of two connections are two threads, only a connection's own *)
(* live worker reads from it or writes to it, and the connection is        *)
(* closed exactly when its worker has returned.                            *)
C18_ConnectionOwnedByOneWorker ==
    [][ \A c \in Conns :
            /\ (wk[c].pc = "none") <=> (cst[c] \in {"idle", "backlog"})
            /\ wk[c].pc /= "none" => wk'[c].nth = wk[c].nth
            /\ \A o \in Conns \ {c} :
                   (wk[c].pc /= "none" /\ wk[o].pc /= "none") => wk[c].nth /= wk[o].nth
            /\ (out'[c] /= out[c] \/ Len(wire'[c]) < Len(wire[c])) =>
                   /\ Phase(wk[c]) \notin {"Unborn", "Closed"}
                   /\ wk'[c] /= wk[c]
                   /\ \A o \in Conns \ {c} : wk'[o] = wk[o]
            /\ (Phase(wk[c]) = "Closed") <=> (cst[c] = "closed")
      ]_vars

\* both connections were accepted; the worker of one has returned and its
\* connection is closed, the other's is writing to its open connection
C18_Witness ==
    \E c \in Conns :
        /\ wk[c].pc = "ok" /\ cst[c] = "closed" /\ out[c] /= <<>>
        /\ Phase(wk[Other(c)]) = "Writing" /\ cst[Other(c)] = "open"

\* the positions of the client's loop
ClientLoop == {"read_line", "parse", "write", "read_until", "print"}

(* C14: the client does not pipeline: a request is written in full before *)
(* the client waits for its response, and whenever the client is about to  *)
(* read or send the next request it has read one full response frame, a    *)
(* line ended by the newline, for every request it has sent.               *)
C14_ClientNeverPipelines ==
    program \in ClientPrograms =>
        /\ cl.pc = "read_until" => cl.written = Len(cl.request)
        /\ cl.pc \in {"read_line", "parse", "write"} => cl.got = cl.sent

(* C15: the client's loop terminates: once read_line has found the end of  *)
(* the user's input, and once the server has closed the connection, the    *)
(* client eventually leaves its loop.                                      *)
C15_ClientLoopTerminates ==
    /\ (program \in ClientPrograms /\ stdin = <<>> /\ cl.input = <<>>
           /\ cl.pc \in ClientLoop \ {"read_line"})
          ~> (cl.pc \notin ClientLoop)
    /\ (program \in ClientPrograms /\ srv.closed) ~> (cl.pc \notin ClientLoop)

(* C16: the client with the read timeout does not wait for a response for  *)
(* ever: it always leaves its read, and when the server never replies the  *)
(* read fails with the error of a read that timed out.                     *)
C16_ReadTimeoutEnforced ==
    /\ (program = "client29" /\ cl.pc = "read_until") ~> (cl.pc /= "read_until")
    /\ (program = "client29" /\ srv.mute /\ cl.pc = "read_until")
          ~> (cl.pc = "panicked" /\ cl.error \in TimeoutKinds)

\* the client sent a request to a server that never replies, and its read
\* has timed out
C16_Witness ==
    /\ program = "client29" /\ srv.mute
    /\ cl.sent = 1 /\ tx /= <<>> /\ rx = <<>> /\ stdout = <<>>
    /\ cl.pc = "panicked" /\ cl.error \in TimeoutKinds

(* C17: a response that is absent or malformed (the server closed, the     *)
(* read timed out, the bytes are no UTF-8) never crashes the client.       *)
C17_BadResponseNeverCrashes ==
    program \in ClientPrograms =>
        ~(cl.pc = "panicked" /\ cl.error \in TimeoutKinds \cup {"Utf8Error"})

\* exactly one argument, and it selects the client or the server
ValidArgs == Len(args) = 2 /\ args[2] \in {"--server", "--client"}

(* C19: started with arguments that are missing or invalid, anything but   *)
(* the one argument --client or --server, the process of 32 exits with     *)
(* code 1: it does not go on into a mode and it never exits with code 0.   *)
C19_InvalidArgsExitOne ==
    (program = "json" /\ args /= <<>> /\ ~ValidArgs) =>
        /\ proc.pc \in {"main", "mode", "exited"}
        /\ proc.pc = "exited" => proc.code = EXIT_FAILURE

(* C20: a server whose bind fails terminates with exit code 1: it has      *)
(* printed the failure, it is over, and it never was in its loop.          *)
C20_BindFailureExitsOne ==
    [][ (proc.pc = "bind" /\ proc'.pc /= "running" /\ proc' /= proc) =>
            /\ proc'.pc = "exited" /\ proc'.code = EXIT_FAILURE
            /\ stderr' /= stderr
      ]_vars

\* 2^k: k \div 8 zero limbs below the limb 2^(k % 8)
Pow2(k) ==
    [i \in 1..((k \div 8) + 1) |-> IF i = (k \div 8) + 1 THEN 2 ^ (k % 8) ELSE 0]

\* the largest r with r*r <= v, for v below 2^68
RECURSIVE ExactRootFrom(_, _, _)
ExactRootFrom(v, r, k) ==
    IF k < 0 THEN r
    ELSE IF BigLeq(BigMul(BigAdd(r, Pow2(k)), BigAdd(r, Pow2(k))), v)
         THEN ExactRootFrom(v, BigAdd(r, Pow2(k)), k - 1)
         ELSE ExactRootFrom(v, r, k - 1)

ExactRoot(v) == ExactRootFrom(v, <<>>, 33)

ExactIsSquare(v) == BigMul(ExactRoot(v), ExactRoot(v)) = v

\* a reply without its newline
ReplyText(r) == SubSeq(r, 1, Len(r) - 1)

PointOfInts(x, y, z) == [x |-> BigOfInt(x), y |-> BigOfInt(y), z |-> BigOfInt(z)]

(* C21: norm correctness.  The point {3, 4, 0} is replied to with the text *)
(* 5 and {0, 0, 0} with the text 0; and every point whose x*x + y*y + z*z  *)
(* is a perfect square is replied to with the decimal digits of the        *)
(* integer square root of that sum, with no fraction.                      *)
C21_NormOfPerfectSquare ==
    (program = "codec" /\ codec.pc \in {"replied", "panicked"}) =>
        /\ codec.input = PointOfInts(3, 4, 0) => ReplyText(codec.reply) = <<"5">>
        /\ codec.input = PointOfInts(0, 0, 0) => ReplyText(codec.reply) = <<"0">>
        /\ ExactIsSquare(ExactSumOfSquares(codec.input)) =>
               /\ codec.pc = "replied"
               /\ ReplyText(codec.reply) =
                      BigToDecimal(ExactRoot(ExactSumOfSquares(codec.input)))

\* the text of sqrt(x*x + y*y + z*z), as Display prints the f64 nearest to it
NormText(p) ==
    IF ExactIsSquare(ExactSumOfSquares(p))
    THEN BigToDecimal(ExactRoot(ExactSumOfSquares(p)))
    ELSE BigToDecimal(ExactRoot(ExactSumOfSquares(p))) \o <<".">>
             \o SqrtFraction(ExactSumOfSquares(p))

\* s cut after each newline; what follows the last newline is the last piece
RECURSIVE SplitLines(_)
SplitLines(s) ==
    IF s = <<>> THEN <<>>
    ELSE IF Find(s, NL) = 0 THEN <<s>>
    ELSE <<Take(s, Find(s, NL))>> \o SplitLines(Drop(s, Find(s, NL)))

\* the request lines the worker of connection c has taken up: all that it
\* has read but the line it is still reading
Requests(c) ==
    SplitLines(Take(payload[c],
                    nsent[c] - Len(wire[c]) - Len(wk[c].rbuf)
                        - (IF wk[c].pc = "read_until" THEN Len(wk[c].buf) ELSE 0)))

\* one frame for each valid request, up to the first request that is none
RECURSIVE Frames(_)
Frames(lines) ==
    IF lines = <<>> \/ ~from_slice(Head(lines)).ok THEN <<>>
    ELSE NormText(from_slice(Head(lines))) \o <<NL>> \o Frames(Tail(lines))

\* the worker is between two requests or over, on a connection that was
\* not reset
Settled(c) ==
    /\ program = "json" /\ ~rst[c]
    /\ wk[c].pc \in {"read_until", "ok", "err", "panicked"}

(* C22: for every valid request the worker has taken up it has written     *)
(* exactly one response frame: the decimal text of the norm and one        *)
(* newline, so that what it has written is one line for each such request, *)
(* in their order, and nothing else.                                       *)
C22_OneFramePerValidRequest ==
    \A c \in Conns : Settled(c) => out[c] = Frames(Requests(c))

(* C23: JSON round trip.  For every point of u32 fields, the line the      *)
(* client makes of it, its JSON text and one newline, is decoded by the    *)
(* server, without an error, to a point with the same x, y and z.          *)
C23_JsonRoundTrip ==
    program = "codec" =>
        /\ codec.pc /= "err"
        /\ codec.pc /= "to_string" =>
               Find(codec.bytes_out, NL) = Len(codec.bytes_out)
        /\ codec.pc \in {"value", "replied", "panicked"} =>
               codec.input = codec.point

\* the point {u32::MAX, 0, 65536} has been through to_string and from_slice
C23_Witness ==
    /\ codec.pc = "value"
    /\ codec.point = [x |-> U32Max, y |-> <<>>, z |-> BigOfInt(65536)]
    /\ codec.input = codec.point
    /\ Len(codec.bytes_out) = 33

(* C24: Cacher::value(arg) returns calculation(arg) on every call, also    *)
(* when an earlier call had another argument: after value(1), value(2)     *)
(* returns 2 for the identity calculation.                                 *)
C24_ValueIsCalculationOfArg ==
    program = "cacher" =>
        \A i \in 1..Len(cacher.rets) : cacher.rets[i] = calculation(cacher.args[i])

(* C25: the calls of next on a new Counter return Some(1), Some(2),        *)
(* Some(3), Some(4), Some(5) in this order and None from the sixth call    *)
(* on, and the count, one more after each Some, stays at 5.                *)
C25_CounterYieldsOneToFive ==
    program = "counter" =>
        /\ counter.count = Min(Len(counter.rets), 5)
        /\ \A i \in 1..Len(counter.rets) :
               counter.rets[i] = IF i <= 5 THEN Some(i) ELSE None

\* seven calls were made: the sixth and the seventh returned None
C25_Witness ==
    /\ program = "counter"
    /\ Len(counter.rets) = 7
    /\ counter.rets[5] = Some(5) /\ counter.rets[6] = None /\ counter.rets[7] = None
    /\ counter.count = 5

\* the messages a call set_value(v) is to send with the limit max: the one
\* of the highest threshold v has reached, none below 75% of max
Due(v, max) ==
    IF v >= max THEN <<"Oops: over quota">>
    ELSE IF 10 * v >= 9 * max THEN <<"Warning: quota over 90%">>
    ELSE IF 4 * v >= 3 * max THEN <<"Warning: quota over 75%">>
    ELSE <<>>

(* C26: a call set_value(v) stores v as the value and sends exactly one    *)
(* message when v is at least 75% of max, the message of the highest of    *)
(* the thresholds 75%, 90% and 100% that v has reached, and no message     *)
(* when v is below 75% of max.                                             *)
C26_OneMessageFromThreeQuarters ==
    [][ (program = "tracker" /\ tracker' /= tracker) =>
            /\ tracker'.value = tracker'.sets[Len(tracker'.sets)]
            /\ tracker'.max = tracker.max
            /\ tracker'.sent = tracker.sent \o Due(tracker'.value, tracker.max)
      ]_vars

(* C27: the reply to a datagram of n bytes, n <= 1500, is the whole        *)
(* receive buffer of 1500 bytes: its first n bytes are the datagram's      *)
(* payload and the other 1500 - n bytes are zero, whatever n is.           *)
C27_ReplyIsWholeBuffer ==
    program = "udp" =>
        \A r \in replies :
            /\ Len(dgram[r.of].data) <= UDP_BUF_SIZE
            /\ Len(r.data) = UDP_BUF_SIZE
            /\ Take(r.data, Len(dgram[r.of].data)) = dgram[r.of].data
            /\ \A i \in (Len(dgram[r.of].data) + 1)..UDP_BUF_SIZE : r.data[i] = NUL

\* a datagram of two bytes and one of three bytes were both replied to
\* with 1500 bytes
C27_Witness ==
    /\ program = "udp"
    /\ \E r, q \in replies :
          /\ Len(dgram[r.of].data) = 2 /\ Len(dgram[q.of].data) = 3
          /\ Len(r.data) = UDP_BUF_SIZE /\ Len(q.data) = UDP_BUF_SIZE
          /\ r.data[3] = NUL /\ q.data[3] = "!"

IsPrefix(a, b) == Len(a) <= Len(b) /\ a = Take(b, Len(a))

\* what the repository's server answers to a request: 26 and 28 the
\* request itself, 32 the norm of its point
ResponseTo(request) ==
    IF program = "client32" THEN JsonReply(request).bytes ELSE request

(* C28: request and response correspond.  What the client prints in the    *)
(* turn of its loop that sent a request is the server's response to that   *)
(* request, or the part of it that arrived before the server closed, and   *)
(* never bytes answering another request; a whole line is printed for the  *)
(* k-th request only as the k-th line received.  A client whose read has   *)
(* timed out is over: it reads no reply that arrives afterwards.           *)
C28_ResponseIsOfItsRequest ==
    [][ /\ (program \in ClientPrograms /\ cl.pc = "print" /\ cl'.pc = "read_line") =>
               /\ stdout' = stdout \o Printed(cl.buffer)
               /\ IsPrefix(cl.buffer, ResponseTo(cl.request))
               /\ cl'.got /= cl.got => cl'.got = cl.sent
        /\ (cl.pc = "panicked" /\ cl.error \in TimeoutKinds) =>
               cl' = cl /\ stdout' = stdout
      ]_vars

\* the client with the timeout printed the reply to its first line, sent
\* its second line, and its read timed out before the reply, which has
\* arrived since and stays unread
C28_Witness ==
    /\ program = "client29"
    /\ cl.pc = "panicked" /\ cl.error \in TimeoutKinds
    /\ stdout = <<"a", "b", NL>>
    /\ cl.request = <<"c", NL>> /\ cl.sent = 2 /\ cl.got = 1
    /\ rx = <<"c", NL>>

\* how many newlines s has
RECURSIVE CountNl(_)
CountNl(s) ==
    IF Find(s, NL) = 0 THEN 0 ELSE 1 + CountNl(Drop(s, Find(s, NL)))

\* how many of the lines were decoded: those before the first that is no
\* valid point
RECURSIVE Decoded(_)
Decoded(lines) ==
    IF lines = <<>> \/ ~from_slice(Head(lines)).ok THEN 0
    ELSE 1 + Decoded(Tail(lines))

\* the request lines the worker of connection c has read, the one it is
\* reading included
LinesRead(c) ==
    SplitLines(Take(payload[c], nsent[c] - Len(wire[c]) - Len(wk[c].rbuf)))

(* C29: on each connection of the JSON server, whenever the worker is      *)
(* between two requests or over, it has written as many response lines as  *)
(* it has decoded request lines; it never has written more lines than it   *)
(* has read; and once a request line has failed to decode the worker       *)
(* reads no further request and writes no further response: the failed     *)
(* line stays the last line it has read, and the lines it has written are  *)
(* those of the requests decoded before it.                                *)
C29_ResponsesMatchDecodedRequests ==
    program = "json" =>
        \A c \in Conns :
            /\ Settled(c) => CountNl(out[c]) = Decoded(Requests(c))
            /\ CountNl(out[c]) <= Len(LinesRead(c))
            /\ (wk[c].pc = "err" /\ wk[c].error = "InvalidData") =>
                   /\ Decoded(LinesRead(c)) = Len(LinesRead(c)) - 1
                   /\ CountNl(out[c]) = Decoded(LinesRead(c))

=============================================================================
